---- MODULE Spec2Model ----
(***************************************************************************)
(* War lifecycle engine of the TribeWarSystem plugin                       *)
(* (src/TribeWarSystem/TribeWarSystem.cpp).                                *)
(*                                                                         *)
(* State: the war table wars_by_id, the derived party index                *)
(* tribe_to_war_id, the id counter, the dirty flag, the timer switch, the  *)
(* notification queue, the persisted data file and the wall clock.         *)
(* Operations: the declare command (IsWarAllowed + DeclareWar),            *)
(* RequestCancelWar, AcceptCancelWar, the timer callback (ProcessTimers +  *)
(* queue flush + debounced save), and process restart (InitPlugin).        *)
(*                                                                         *)
(* Scaling: tribe ids are 32-bit in the code (CanonicalTribeId truncates   *)
(* to uint32); the model keeps the truncation but with TribeIdBits bits.   *)
(* Config values are drawn non-negative.  plugin_initialized is TRUE in    *)
(* every state in which a command or the timer can run (Load calls         *)
(* InitPlugin before it registers them).                                   *)
(***************************************************************************)
EXTENDS Integers, Sequences, FiniteSets, TLC

\* ---------------------------------------------------------------- bounds
StartTime == 100
MaxTime == 102
MaxWarId == 2
MaxWarDelay == 1
MaxCooldown == 1
MaxSelfTestActive == 1
TribeIdBits == 5
IntBits == 13
MaxStarted == 2
MaxThreads == 3
MaxNotes == 3
MaxRunners == 2
MaxWindow == 2

\* ------------------------------------------------------ program constants
MinSaveInterval == 30
StaleSlack == 3600

Tribes == {10, 20, 30}
PartyIds == Tribes \cup {0}

VARIABLES
  now,                  \* Now(): wall clock, seconds
  config,               \* Config (the fields the engine reads)
  wars_by_id,           \* war_id -> WarRecord
  tribe_to_war_id,      \* party -> war_id
  next_war_id,
  need_save,            \* dirty flag
  auto_timers_enabled,
  server_ready,         \* ArkApi status == Ready
  pending_notifications,
  last_save,            \* static last_save of FlushSaveIfNeeded
  disk,                 \* content of data.json
  cancel_callers,       \* history: <<war_id, party>> that asked to cancel
  started_emitted,      \* history: <<war_id, party>> -> "war started" count
  cooldown_emitted,     \* history: <<war_id, party>> -> "cooldown ended" count
  save_times,           \* history: when FlushSaveIfNeeded of this process wrote data.json
  threads,              \* what each thread is running, where it is and the locks it holds
  handed,               \* history: the notifications handed to the messaging calls
  abandoned_tribe_until, \* tribe id -> second until which it counts as abandoned
  last,                 \* what the last call returned and emitted
  probe,                \* a call of a pure function: its inputs and result
  callers,              \* the declare commands in flight, one per thread
  assigned              \* history: the war ids DeclareWar has assigned

vars == <<now, config, wars_by_id, tribe_to_war_id, next_war_id, need_save,
          auto_timers_enabled, server_ready, pending_notifications,
          last_save, disk, cancel_callers, started_emitted, cooldown_emitted, save_times, threads, handed, abandoned_tribe_until, last,
          probe, callers, assigned>>

\* ------------------------------------------------------------ data model
NewWarRecord ==
  [war_id |-> 0, tribe_a |-> 0, tribe_b |-> 0, declared_at |-> 0,
   start_at |-> 0, ended_at |-> 0, cooldown_end_a |-> 0,
   cooldown_end_b |-> 0, cancel_requested_by_a |-> FALSE,
   cancel_requested_by_b |-> FALSE, start_notified |-> FALSE,
   cooldown_notified |-> FALSE]

plugin_initialized == TRUE

Note(side, msg, styled) ==
  [side_tribe_id |-> side, message |-> msg, styled |-> styled]

Max(a, b) == IF a >= b THEN a ELSE b

\* The number of values of the scaled uint32_t.
TribeIdRange == 2 ^ TribeIdBits

CanonicalTribeId(raw_id) == raw_id % TribeIdRange

\* Mutant: the war is still Pending in the second it starts.
GetPhase_StartsLate(war, t) ==
  IF war.war_id = 0 THEN "None"
  ELSE IF war.ended_at = 0
       THEN IF t <= war.start_at THEN "Pending" ELSE "Active"
       ELSE IF t < war.cooldown_end_a \/ t < war.cooldown_end_b
            THEN "Cooldown"
            ELSE "None"

GetPhase(war, t) ==
  IF war.war_id = 0 THEN "None"
  ELSE IF war.ended_at = 0
       THEN IF t < war.start_at THEN "Pending" ELSE "Active"
       ELSE IF t < war.cooldown_end_a \/ t < war.cooldown_end_b
            THEN "Cooldown"
            ELSE "None"

IsActiveWar(war, t) == GetPhase(war, t) = "Active"

\* Iteration orders of an unordered_map with key set S.
Orders(S) ==
  {s \in [1..Cardinality(S) -> S] : \A i, j \in DOMAIN s : s[i] = s[j] => i = j}

RECURSIVE IndexFold(_, _, _, _)
IndexFold(wars, t, ord, i) ==
  IF i = 0 THEN << >>
  ELSE LET prev == IndexFold(wars, t, ord, i - 1)
           war == wars[ord[i]]
       IN IF GetPhase(war, t) = "None" THEN prev
          ELSE [p \in (DOMAIN prev) \cup {war.tribe_a, war.tribe_b} |->
                  IF p \in {war.tribe_a, war.tribe_b} THEN war.war_id
                  ELSE prev[p]]

\* Mutant: the rebuild also indexes the records whose phase is None.
RebuildTribeIndexLocked_AllRecords(wars, t, ord) ==
  [p \in UNION {{wars[id].tribe_a, wars[id].tribe_b} : id \in DOMAIN wars} |->
     ord[CHOOSE i \in DOMAIN ord :
           /\ p \in {wars[ord[i]].tribe_a, wars[ord[i]].tribe_b}
           /\ \A j \in DOMAIN ord :
                j > i => p \notin {wars[ord[j]].tribe_a, wars[ord[j]].tribe_b}]]

\* RebuildTribeIndexLocked: clear, then one pass in iteration order ord;
\* a later record overwrites the entries of an earlier one.
RebuildTribeIndexLocked(wars, t, ord) == IndexFold(wars, t, ord, Len(ord))

\* GetWarForTribeLocked: 0 stands for nullptr.
GetWarForTribeLocked(wars, index, tribe_id) ==
  IF tribe_id \notin DOMAIN index THEN 0
  ELSE IF index[tribe_id] \notin DOMAIN wars THEN 0
  ELSE index[tribe_id]

\* Mutant: the lookup answers only for a war that is Active.
GetWarForTribeCopy_OnlyActive(wars, index, raw_id, t) ==
  LET id == GetWarForTribeLocked(wars, index, CanonicalTribeId(raw_id))
  IN IF id = 0 THEN 0
     ELSE IF GetPhase(wars[id], t) # "Active" THEN 0 ELSE id

\* Mutant: the lookup answers only for a war that has not ended.
GetWarForTribeCopy_NotEnded(wars, index, raw_id, t) ==
  LET id == GetWarForTribeLocked(wars, index, CanonicalTribeId(raw_id))
  IN IF id = 0 THEN 0
     ELSE IF wars[id].ended_at # 0 THEN 0 ELSE id

\* GetWarForTribeCopy: 0 stands for nullopt.
GetWarForTribeCopy(wars, index, raw_id, t) ==
  LET id == GetWarForTribeLocked(wars, index, CanonicalTribeId(raw_id))
  IN IF id = 0 THEN 0
     ELSE IF GetPhase(wars[id], t) = "None" THEN 0 ELSE id

IsTribeInCooldown(wars, index, raw_id, t) ==
  LET tribe_id == CanonicalTribeId(raw_id)
      id == GetWarForTribeLocked(wars, index, tribe_id)
  IN IF id = 0 THEN FALSE
     ELSE IF wars[id].ended_at = 0 THEN FALSE
     ELSE IF GetPhase(wars[id], t) # "Cooldown" THEN FALSE
     ELSE IF tribe_id = wars[id].tribe_a THEN t < wars[id].cooldown_end_a
     ELSE IF tribe_id = wars[id].tribe_b THEN t < wars[id].cooldown_end_b
     ELSE FALSE

\* Mutant: the roster is not asked.
IsTribeLeaderOrAdminOnline_NotAsked(tribe_id, ready, member_online) ==
  IF tribe_id = 0 THEN FALSE ELSE ready

\* IsTribeLeaderOrAdminOnline: member_online is the roster's answer.
IsTribeLeaderOrAdminOnline(tribe_id, ready, member_online) ==
  IF tribe_id = 0 THEN FALSE
  ELSE IF ~ready THEN FALSE
  ELSE member_online

\* Mutant: only the requester is checked for an existing war.
IsWarAllowed_OneSided(wars, index, raw_a, raw_b, t, ready, allied, member_online) ==
  LET tribe_a == CanonicalTribeId(raw_a)
      tribe_b == CanonicalTribeId(raw_b)
  IN IF tribe_a = 0 \/ tribe_b = 0 THEN "no_tribe"
     ELSE IF tribe_a = tribe_b THEN "self"
     ELSE IF ready /\ allied THEN "allied"
     ELSE IF GetWarForTribeCopy(wars, index, tribe_a, t) # 0 THEN "busy"
     ELSE IF ~IsTribeLeaderOrAdminOnline(tribe_b, ready, member_online)
          THEN "offline"
     ELSE IF IsTribeInCooldown(wars, index, tribe_a, t) THEN "cooldown"
     ELSE "ok"

\* IsWarAllowed: "ok" or the reason of the first failing check.
IsWarAllowed(wars, index, raw_a, raw_b, t, ready, allied, member_online) ==
  LET tribe_a == CanonicalTribeId(raw_a)
      tribe_b == CanonicalTribeId(raw_b)
  IN IF tribe_a = 0 \/ tribe_b = 0 THEN "no_tribe"
     ELSE IF tribe_a = tribe_b THEN "self"
     ELSE IF ready /\ allied THEN "allied"
     ELSE IF GetWarForTribeCopy(wars, index, tribe_a, t) # 0
             \/ GetWarForTribeCopy(wars, index, tribe_b, t) # 0 THEN "busy"
     ELSE IF ~IsTribeLeaderOrAdminOnline(tribe_b, ready, member_online)
          THEN "offline"
     ELSE IF IsTribeInCooldown(wars, index, tribe_a, t)
             \/ IsTribeInCooldown(wars, index, tribe_b, t) THEN "cooldown"
     ELSE "ok"

\* What the last call returned and emitted: the outcome of IsWarAllowed for a
\* declare ("" for the other calls), the notifications the engine generated
\* (the NotifySide calls of a command, notifications_out of ProcessTimers)
\* and the queue entries FlushNotificationQueue handed to the transport.
\* op is "tick" after a timer callback, "tick_again" after a timer callback
\* that followed another one with no command and no clock change between,
\* "cancel" after a RequestCancelWar that set a flag and "cancel_again"
\* after one that found its flag set.
Call(reason, notes, delivered) ==
  [reason |-> reason, notes |-> notes, delivered |-> delivered,
   before |-> << >>, args |-> << >>, op |-> ""]

\* The outcome of a declare: with it the history keeps the store, the index,
\* the counter and the dirty flag as the call found them, and the parties of
\* a declare that was accepted.
DeclareCall(reason, notes, args) ==
  [reason |-> reason, notes |-> notes, delivered |-> << >>,
   before |-> [wars_by_id |-> wars_by_id, tribe_to_war_id |-> tribe_to_war_id,
               next_war_id |-> next_war_id, need_save |-> need_save],
   args |-> args, op |-> ""]

\* The threads that run commands at the same time.
Callers == {1, 2}

\* The threads that run operations step by step.
Threads == 1..MaxThreads

\* A thread that runs nothing: op is the operation, pc the position in it,
\* holds the locks it has, notes what it is about to enqueue, local the
\* vector FlushNotificationQueue has swapped out, flush the number of that
\* flush; path is the sequence of lock operations and outside calls of the
\* function it runs, at its position in it.
IdleThread ==
  [op |-> "idle", pc |-> "idle", holds |-> {}, notes |-> << >>,
   local |-> << >>, flush |-> 0, path |-> << >>, at |-> 0]

\* A thread that runs no command.
Idle == [pc |-> "idle", tribe_id |-> 0, target_id |-> 0, now |-> 0,
         reason |-> ""]

\* ------------------------------------------------------------------ Init
\* Config after LoadConfig.  The self-test parties stand for 111111/222222.
ConfigValues ==
  {[war_delay_seconds |-> d, cooldown_seconds |-> c, self_test |-> st,
    self_test_tribe_a |-> 10, self_test_tribe_b |-> 20,
    self_test_active_seconds |-> MaxSelfTestActive,
    enable_abandoned_structure_window |-> FALSE,
    abandoned_structure_window_seconds |-> MaxWindow] :
     <<d, c, st>> \in {<<MaxWarDelay, MaxCooldown, FALSE>>,
                       <<0, MaxCooldown, TRUE>>,
                       <<0, MaxCooldown, FALSE>>}}

\* SeedSelfTestWarIfNeeded on store (wars, next_id): the store after it.
SeedSelfTestWarIfNeeded(cfg, wars, next_id, t) ==
  IF ~cfg.self_test \/ DOMAIN wars # {}
     \/ cfg.self_test_tribe_a = 0 \/ cfg.self_test_tribe_b = 0
     \/ cfg.self_test_tribe_a = cfg.self_test_tribe_b
  THEN [wars |-> wars, next_war_id |-> next_id, seeded |-> FALSE]
  ELSE [wars |-> [id \in {next_id} |->
                    [NewWarRecord EXCEPT !.war_id = next_id,
                       !.tribe_a = cfg.self_test_tribe_a,
                       !.tribe_b = cfg.self_test_tribe_b,
                       !.declared_at = t,
                       !.start_at = t + cfg.war_delay_seconds]],
        next_war_id |-> next_id + 1, seeded |-> TRUE]

\* data.json does not exist.
NoFile == [state |-> "missing", next_war_id |-> 0, wars |-> {}]

\* The state after InitPlugin on a machine without data.json.
Init ==
  /\ now = StartTime
  /\ config \in ConfigValues
  /\ LET seed == SeedSelfTestWarIfNeeded(config, << >>, 1, now)
     IN /\ wars_by_id = seed.wars
        /\ next_war_id = seed.next_war_id
        /\ tribe_to_war_id =
             IF seed.seeded
             THEN RebuildTribeIndexLocked(seed.wars, now, <<1>>)
             ELSE << >>
  /\ need_save = TRUE
  /\ auto_timers_enabled = TRUE
  /\ server_ready \in BOOLEAN
  /\ pending_notifications = << >>
  /\ last_save = 0
  /\ disk = NoFile
  /\ cancel_callers = {}
  /\ started_emitted = << >>
  /\ cooldown_emitted = << >>
  /\ save_times = << >>
  /\ threads = [t \in Threads |-> IdleThread]
  /\ handed = << >>
  /\ abandoned_tribe_until = << >>
  /\ last = Call("", << >>, << >>)
  /\ probe = << >>
  /\ callers = [c \in Callers |-> Idle]
  /\ assigned = {}

\* --------------------------------------------------------------- actions
\* Mutant: the war starts at once.
DeclaredWar_NoDelay(id, tribe_a, tribe_b, t, cfg) ==
  [NewWarRecord EXCEPT !.war_id = id, !.tribe_a = tribe_a,
                       !.tribe_b = tribe_b, !.declared_at = t,
                       !.start_at = t]

\* The record DeclareWar inserts.
DeclaredWar(id, tribe_a, tribe_b, t, cfg) ==
  [NewWarRecord EXCEPT !.war_id = id, !.tribe_a = tribe_a,
                       !.tribe_b = tribe_b, !.declared_at = t,
                       !.start_at = t + cfg.war_delay_seconds]

\* wars_by_id[war.war_id] = war.
Insert(wars, war) ==
  [id \in (DOMAIN wars) \cup {war.war_id} |->
     IF id = war.war_id THEN war ELSE wars[id]]

\* Mutant: the index is not rebuilt after the insert; the entries of the
\* two parties are written over those the index holds.
DeclareWar_NoRebuild(raw_a, raw_b) ==
  /\ next_war_id' = next_war_id + 1
  /\ wars_by_id' =
       Insert(wars_by_id,
              DeclaredWar(next_war_id, CanonicalTribeId(raw_a),
                          CanonicalTribeId(raw_b), now, config))
  /\ tribe_to_war_id' =
       [p \in DOMAIN tribe_to_war_id
               \cup {CanonicalTribeId(raw_a), CanonicalTribeId(raw_b)} |->
          IF p \in {CanonicalTribeId(raw_a), CanonicalTribeId(raw_b)}
          THEN next_war_id ELSE tribe_to_war_id[p]]
  /\ need_save' = TRUE
  /\ assigned' = assigned \cup {next_war_id}
  /\ last' = DeclareCall("ok",
                  <<Note(CanonicalTribeId(raw_a), "war_declared_by_you", FALSE),
                    Note(CanonicalTribeId(raw_b), "war_declared_on_you", FALSE)>>,
                  <<raw_a, raw_b>>)

\* DeclareWar: the locked insert, then need_save and the two NotifySide.
DeclareWar(raw_a, raw_b) ==
  /\ next_war_id' = next_war_id + 1
  /\ wars_by_id' =
       Insert(wars_by_id,
              DeclaredWar(next_war_id, CanonicalTribeId(raw_a),
                          CanonicalTribeId(raw_b), now, config))
  /\ \E ord \in Orders(DOMAIN wars_by_id') :
       tribe_to_war_id' = RebuildTribeIndexLocked(wars_by_id', now, ord)
  /\ need_save' = TRUE
  /\ assigned' = assigned \cup {next_war_id}
  /\ last' = DeclareCall("ok",
                  <<Note(CanonicalTribeId(raw_a), "war_declared_by_you", FALSE),
                    Note(CanonicalTribeId(raw_b), "war_declared_on_you", FALSE)>>,
                  <<raw_a, raw_b>>)

\* CmdWarDeclareId from the eligibility check on: declare(a, b).
Declare(raw_a, raw_b, allied, member_online) ==
  /\ next_war_id <= MaxWarId
  /\ UNCHANGED <<probe, callers, now, config, auto_timers_enabled, server_ready,
                 pending_notifications, last_save, disk, cancel_callers,
                 started_emitted, cooldown_emitted, save_times,
                 threads, handed, abandoned_tribe_until>>
  /\ \E reason \in {IsWarAllowed(wars_by_id, tribe_to_war_id, raw_a, raw_b,
                                  now, server_ready, allied, member_online)} :
       IF reason = "ok"
       THEN DeclareWar(raw_a, raw_b)
       ELSE /\ last' = DeclareCall(reason, << >>, << >>)
            /\ UNCHANGED <<wars_by_id, tribe_to_war_id, next_war_id,
                           need_save, assigned>>

\* Mutant: the request sets the flags of both sides.
SetCancelFlag_Both(war, tribe_id) ==
  [war EXCEPT !.cancel_requested_by_a = TRUE,
              !.cancel_requested_by_b = TRUE]

\* Mutant: a second request of the same side withdraws the first.
SetCancelFlag_Toggle(war, tribe_id) ==
  IF tribe_id = war.tribe_a
  THEN [war EXCEPT !.cancel_requested_by_a = ~@]
  ELSE IF tribe_id = war.tribe_b
  THEN [war EXCEPT !.cancel_requested_by_b = ~@]
  ELSE war

\* The caller's own cancel flag is set.
SetCancelFlag(war, tribe_id) ==
  IF tribe_id = war.tribe_a
  THEN [war EXCEPT !.cancel_requested_by_a = TRUE]
  ELSE IF tribe_id = war.tribe_b
  THEN [war EXCEPT !.cancel_requested_by_b = TRUE]
  ELSE war

OtherSide(war, tribe_id) ==
  IF tribe_id = war.tribe_a THEN war.tribe_b ELSE war.tribe_a

\* RequestCancelWar(tribe_id).
RequestCancelWar(raw_id) ==
  /\ \E id \in {GetWarForTribeLocked(wars_by_id, tribe_to_war_id,
                                     CanonicalTribeId(raw_id))} :
       IF id = 0 \/ (id # 0 /\ wars_by_id[id].ended_at # 0)
       THEN /\ last' = Call("", << >>, << >>)
            /\ UNCHANGED <<wars_by_id, need_save, cancel_callers>>
       ELSE /\ wars_by_id' =
                 [wars_by_id EXCEPT
                    ![id] = SetCancelFlag(@, CanonicalTribeId(raw_id))]
            /\ need_save' = TRUE
            /\ cancel_callers' =
                 cancel_callers \cup {<<id, CanonicalTribeId(raw_id)>>}
            /\ last' = [Call("",
                 <<Note(OtherSide(wars_by_id[id], CanonicalTribeId(raw_id)),
                        "cancel_requested", FALSE),
                   Note(CanonicalTribeId(raw_id), "cancel_request_sent",
                        FALSE)>>,
                 << >>)
                 EXCEPT !.op = IF wars_by_id'[id] = wars_by_id[id]
                               THEN "cancel_again" ELSE "cancel"]
  /\ UNCHANGED <<probe, callers, assigned, now, config, tribe_to_war_id, next_war_id,
                 auto_timers_enabled, server_ready, pending_notifications,
                 last_save, disk, started_emitted, cooldown_emitted, save_times,
                 threads, handed, abandoned_tribe_until>>

\* Mutant: one request is enough.
BothRequested_Either(war) ==
  war.cancel_requested_by_a \/ war.cancel_requested_by_b

\* Both sides have asked to cancel.
BothRequested(war) == war.cancel_requested_by_a /\ war.cancel_requested_by_b

\* Mutant: the cancel flags survive the end of the war.
EndWar_KeepsFlags(war, t, cfg) ==
  [war EXCEPT !.ended_at = t,
              !.cooldown_end_a = t + cfg.cooldown_seconds,
              !.cooldown_end_b = t + cfg.cooldown_seconds,
              !.cooldown_notified = FALSE]

\* The finalisation of AcceptCancelWar.
EndWar(war, t, cfg) ==
  [war EXCEPT !.ended_at = t,
              !.cooldown_end_a = t + cfg.cooldown_seconds,
              !.cooldown_end_b = t + cfg.cooldown_seconds,
              !.cancel_requested_by_a = FALSE,
              !.cancel_requested_by_b = FALSE,
              !.cooldown_notified = FALSE]

\* AcceptCancelWar(tribe_id).
AcceptCancelWar(raw_id) ==
  /\ \E id \in {GetWarForTribeLocked(wars_by_id, tribe_to_war_id,
                                     CanonicalTribeId(raw_id))} :
       IF id = 0 \/ (id # 0 /\ wars_by_id[id].ended_at # 0)
       THEN /\ last' = Call("", << >>, << >>)
            /\ UNCHANGED <<wars_by_id, tribe_to_war_id, need_save,
                           cancel_callers>>
       ELSE /\ cancel_callers' =
                 cancel_callers \cup {<<id, CanonicalTribeId(raw_id)>>}
            /\ \E flagged \in {SetCancelFlag(wars_by_id[id],
                                             CanonicalTribeId(raw_id))} :
                 IF ~BothRequested(flagged)
                 THEN \* return inside the locked block
                      /\ wars_by_id' = [wars_by_id EXCEPT ![id] = flagged]
                      /\ last' = Call("", << >>, << >>)
                      /\ UNCHANGED <<tribe_to_war_id, need_save>>
                 ELSE /\ wars_by_id' =
                           [wars_by_id EXCEPT
                              ![id] = EndWar(flagged, now, config)]
                      /\ \E ord \in Orders(DOMAIN wars_by_id) :
                           tribe_to_war_id' =
                             RebuildTribeIndexLocked(wars_by_id', now, ord)
                      /\ need_save' = TRUE
                      /\ last' = Call("",
                           <<Note(flagged.tribe_a, "war_canceled", TRUE),
                             Note(flagged.tribe_b, "war_canceled", TRUE)>>,
                           << >>)
  /\ UNCHANGED <<probe, callers, assigned, now, config, next_war_id, auto_timers_enabled,
                 server_ready, pending_notifications, last_save, disk,
                 started_emitted, cooldown_emitted, save_times,
                 threads, handed, abandoned_tribe_until>>

\* ProcessTimers, the body of the loop for one record, as stages over
\* r = [war, notes, changed, remove, started]: the record, the notifications
\* pushed for it, `changed`, whether it is queued for removal and whether
\* "war started" was pushed.
Scanned(war) ==
  [war |-> war, notes |-> << >>, changed |-> FALSE, remove |-> FALSE,
   started |-> FALSE, cooled |-> FALSE]

\* Defensive normalisation of start_at.
DeriveStartAt(war, t, cfg) ==
  IF war.start_at = 0 /\ war.declared_at # 0
  THEN [war EXCEPT !.start_at = war.declared_at + cfg.war_delay_seconds]
  ELSE IF war.start_at = 0
  THEN [war EXCEPT !.start_at = t + cfg.war_delay_seconds]
  ELSE war

\* Mutant: the notification is sent and the flag is not set.
NotifyStarted_FlagNotSet(r, t) ==
  IF r.war.ended_at = 0 /\ t >= r.war.start_at /\ ~r.war.start_notified
  THEN [r EXCEPT !.notes = @ \o <<Note(r.war.tribe_a, "war_started", TRUE),
                                  Note(r.war.tribe_b, "war_started", TRUE)>>,
                 !.changed = TRUE,
                 !.started = TRUE]
  ELSE r

\* Mutant: "war started" is sent whether or not it was sent before.
NotifyStarted_Repeats(r, t) ==
  IF r.war.ended_at = 0 /\ t >= r.war.start_at
  THEN [r EXCEPT !.notes = @ \o <<Note(r.war.tribe_a, "war_started", TRUE),
                                  Note(r.war.tribe_b, "war_started", TRUE)>>,
                 !.war.start_notified = TRUE,
                 !.changed = TRUE,
                 !.started = TRUE]
  ELSE r

\* Pending -> Active: "war started" to both sides, once.
NotifyStarted(r, t) ==
  IF r.war.ended_at = 0 /\ t >= r.war.start_at /\ ~r.war.start_notified
  THEN [r EXCEPT !.notes = @ \o <<Note(r.war.tribe_a, "war_started", TRUE),
                                  Note(r.war.tribe_b, "war_started", TRUE)>>,
                 !.war.start_notified = TRUE,
                 !.changed = TRUE,
                 !.started = TRUE]
  ELSE r

\* Mutant: the forced end does not ask for self-test mode.
SelfTestEnd_AnyMode(r, t, cfg) ==
  IF /\ r.war.ended_at = 0 /\ r.war.start_notified
     /\ t >= r.war.start_at + Max(1, cfg.self_test_active_seconds)
  THEN [r EXCEPT !.war.ended_at = t,
                 !.war.cooldown_end_a = t + cfg.cooldown_seconds,
                 !.war.cooldown_end_b = t + cfg.cooldown_seconds,
                 !.war.cooldown_notified = FALSE,
                 !.changed = TRUE]
  ELSE r

\* Self-test: end the war after it was active for N seconds.
SelfTestEnd(r, t, cfg) ==
  IF /\ cfg.self_test /\ r.war.ended_at = 0 /\ r.war.start_notified
     /\ t >= r.war.start_at + Max(1, cfg.self_test_active_seconds)
  THEN [r EXCEPT !.war.ended_at = t,
                 !.war.cooldown_end_a = t + cfg.cooldown_seconds,
                 !.war.cooldown_end_b = t + cfg.cooldown_seconds,
                 !.war.cooldown_notified = FALSE,
                 !.changed = TRUE]
  ELSE r

\* Mutant: a record is queued for removal as soon as the war has ended.
QueueRemoval_AtEnd(r, t) ==
  IF r.war.ended_at # 0 THEN [r EXCEPT !.remove = TRUE] ELSE r

\* Mutant: "cooldown ended" is sent as soon as the war has ended.
NotifyCooldownEnded_AtEnd(r, t) ==
  IF r.war.ended_at # 0 /\ ~r.war.cooldown_notified
  THEN [r EXCEPT !.notes = @ \o <<Note(r.war.tribe_a, "cooldown_ended", FALSE),
                                  Note(r.war.tribe_b, "cooldown_ended", FALSE)>>,
                 !.war.cooldown_notified = TRUE,
                 !.changed = TRUE,
                 !.cooled = TRUE]
  ELSE r

\* Cooldown -> None: "cooldown ended" to both sides, once.
NotifyCooldownEnded(r, t) ==
  IF /\ r.war.ended_at # 0 /\ ~r.war.cooldown_notified
     /\ t >= r.war.cooldown_end_a /\ t >= r.war.cooldown_end_b
  THEN [r EXCEPT !.notes = @ \o <<Note(r.war.tribe_a, "cooldown_ended", FALSE),
                                  Note(r.war.tribe_b, "cooldown_ended", FALSE)>>,
                 !.war.cooldown_notified = TRUE,
                 !.changed = TRUE,
                 !.cooled = TRUE]
  ELSE r

\* Queue the record for removal once both cooldowns have ended.
QueueRemoval(r, t) ==
  IF /\ r.war.ended_at # 0
     /\ r.war.cooldown_end_a > 0 /\ r.war.cooldown_end_b > 0
     /\ t >= r.war.cooldown_end_a /\ t >= r.war.cooldown_end_b
  THEN [r EXCEPT !.remove = TRUE]
  ELSE r

ProcessWar(war, t, cfg) ==
  IF war.war_id = 0 \/ war.tribe_a = 0 \/ war.tribe_b = 0
  THEN Scanned(war)
  ELSE QueueRemoval(
         NotifyCooldownEnded(
           SelfTestEnd(
             NotifyStarted(Scanned(DeriveStartAt(war, t, cfg)), t),
             t, cfg),
           t),
         t)

\* The scan so far, extended by the outcome r of the record with key id.
ScanStep(prev, id, r) ==
  [wars |-> [prev.wars EXCEPT ![id] = r.war],
   notes |-> prev.notes \o r.notes,
   changed |-> prev.changed \/ r.changed,
   remove |-> IF r.remove THEN prev.remove \cup {id} ELSE prev.remove,
   started |-> IF r.started
               THEN prev.started \cup {<<id, r.war.tribe_a>>,
                                       <<id, r.war.tribe_b>>}
               ELSE prev.started,
   cooled |-> IF r.cooled
              THEN prev.cooled \cup {<<id, r.war.tribe_a>>,
                                     <<id, r.war.tribe_b>>}
              ELSE prev.cooled]

\* The scan so far when the body throws at the record with key id, whose
\* complete outcome would be r: at its first allocation (fault_alloc = 1),
\* or at the push_back of the second notification of its first pair
\* (fault_alloc = 2), the first being in notifications_out by then.  The
\* flags of the record are set after the pair, so they stay as they were.
Interrupted(prev, id, r, fault_alloc, t, cfg) ==
  [prev EXCEPT
     !.wars[id] = DeriveStartAt(@, t, cfg),
     !.notes = IF fault_alloc = 2 THEN @ \o <<r.notes[1]>> ELSE @,
     !.started = IF fault_alloc = 2 /\ r.started
                 THEN @ \cup {<<id, r.war.tribe_a>>} ELSE @,
     !.cooled = IF fault_alloc = 2 /\ r.cooled /\ ~r.started
                THEN @ \cup {<<id, r.war.tribe_a>>} ELSE @]

NoScan(wars) ==
  [wars |-> wars, notes |-> << >>, changed |-> FALSE, remove |-> {},
   started |-> {}, cooled |-> {}]

\* The scan of ProcessTimers over the first i records of iteration order ord.
RECURSIVE TimersFold(_, _, _, _, _)
TimersFold(wars, ord, i, t, cfg) ==
  IF i = 0
  THEN NoScan(wars)
  ELSE ScanStep(TimersFold(wars, ord, i - 1, t, cfg), ord[i],
                ProcessWar(wars[ord[i]], t, cfg))

\* SaveData: what is written to data.json from the snapshot.
SaveData(next_id, wars) ==
  [state |-> "written", next_war_id |-> next_id,
   wars |-> {wars[id] : id \in DOMAIN wars}]

Count(f, k) == IF k \in DOMAIN f THEN f[k] ELSE 0

\* Whether the loop body allocates for this record (push_back of a
\* notification or of an id to remove, the text of a self-test log line):
\* the places of the try block that can throw.
Allocates(r) == r.changed \/ r.remove

\* "war started" counts after a scan.
CountStarted(counts, scan) ==
  [k \in (DOMAIN counts) \cup scan.started |->
     Count(counts, k) + (IF k \in scan.started THEN 1 ELSE 0)]

\* "cooldown ended" counts after a scan.
CountCooled(counts, scan) ==
  [k \in (DOMAIN counts) \cup scan.cooled |->
     Count(counts, k) + (IF k \in scan.cooled THEN 1 ELSE 0)]

\* Mutant: the catch block leaves the timers enabled.
ProcessTimers_StaysEnabled(scan, faulted, kept, dirty) ==
  /\ auto_timers_enabled' = auto_timers_enabled
  /\ kept = IF faulted THEN scan.wars
            ELSE [id \in (DOMAIN scan.wars) \ scan.remove |-> scan.wars[id]]
  /\ wars_by_id' = kept
  /\ IF ~faulted /\ scan.remove # {}
     THEN \E ord2 \in Orders(DOMAIN kept) :
            tribe_to_war_id' = RebuildTribeIndexLocked(kept, now, ord2)
     ELSE UNCHANGED tribe_to_war_id
  /\ dirty = (need_save \/ (~faulted /\ (scan.changed \/ scan.remove # {})))
  /\ started_emitted' = CountStarted(started_emitted, scan)
  /\ cooldown_emitted' = CountCooled(cooldown_emitted, scan)

\* Mutant: the queued records are erased and the index is left as it was.
ProcessTimers_NoRebuild(scan, faulted, kept, dirty) ==
  /\ auto_timers_enabled' = (auto_timers_enabled /\ ~faulted)
  /\ kept = IF faulted THEN scan.wars
            ELSE [id \in (DOMAIN scan.wars) \ scan.remove |-> scan.wars[id]]
  /\ wars_by_id' = kept
  /\ UNCHANGED tribe_to_war_id
  /\ dirty = (need_save \/ (~faulted /\ (scan.changed \/ scan.remove # {})))
  /\ started_emitted' = CountStarted(started_emitted, scan)
  /\ cooldown_emitted' = CountCooled(cooldown_emitted, scan)

\* ProcessTimers: scan is the outcome of the loop, faulted whether the try
\* block threw.  Erases the queued records, rebuilds the index after a
\* removal and leaves in dirty whether need_save is set afterwards.
ProcessTimers(scan, faulted, kept, dirty) ==
  /\ auto_timers_enabled' = (auto_timers_enabled /\ ~faulted)
  /\ kept = IF faulted THEN scan.wars
            ELSE [id \in (DOMAIN scan.wars) \ scan.remove |-> scan.wars[id]]
  /\ wars_by_id' = kept
  /\ IF ~faulted /\ scan.remove # {}
     THEN \E ord2 \in Orders(DOMAIN kept) :
            tribe_to_war_id' = RebuildTribeIndexLocked(kept, now, ord2)
     ELSE UNCHANGED tribe_to_war_id
  /\ dirty = (need_save \/ (~faulted /\ (scan.changed \/ scan.remove # {})))
  /\ started_emitted' = CountStarted(started_emitted, scan)
  /\ cooldown_emitted' = CountCooled(cooldown_emitted, scan)

\* Mutant: the queue is flushed before the notifications of this callback
\* are appended.
EnqueueAndFlush_FlushFirst(notes) ==
  /\ pending_notifications' =
       IF server_ready THEN notes ELSE pending_notifications \o notes
  /\ last' = [Call("", notes,
                    IF server_ready THEN pending_notifications ELSE << >>)
                EXCEPT !.op = IF last.op \in {"tick", "tick_again"}
                              THEN "tick_again" ELSE "tick"]

\* EnqueueNotifications, then FlushNotificationQueue when the server is ready.
EnqueueAndFlush(notes) ==
  /\ pending_notifications' =
       IF server_ready THEN << >> ELSE pending_notifications \o notes
  /\ last' = [Call("", notes,
                    IF server_ready THEN pending_notifications \o notes
                    ELSE << >>)
                EXCEPT !.op = IF last.op \in {"tick", "tick_again"}
                              THEN "tick_again" ELSE "tick"]

\* FlushSaveIfNeeded gets as far as SaveData.
SaveDue(dirty) == dirty /\ now - last_save >= MinSaveInterval

\* Mutant: FlushSaveIfNeeded without the interval check.
FlushSaveIfNeeded_NoInterval(dirty, file_opens) ==
  /\ need_save' = FALSE
  /\ IF dirty
     THEN /\ last_save' = now
          /\ disk' = IF file_opens THEN SaveData(next_war_id, wars_by_id')
                     ELSE disk
          /\ save_times' = IF file_opens THEN Append(save_times, now)
                           ELSE save_times
     ELSE UNCHANGED <<last_save, disk, save_times>>

\* FlushSaveIfNeeded: exchange(false), the interval check, SaveData.
FlushSaveIfNeeded(dirty, file_opens) ==
  /\ need_save' = FALSE
  /\ IF SaveDue(dirty)
     THEN /\ last_save' = now
          /\ disk' = IF file_opens THEN SaveData(next_war_id, wars_by_id')
                     ELSE disk
          /\ save_times' = IF file_opens THEN Append(save_times, now)
                           ELSE save_times
     ELSE UNCHANGED <<last_save, disk, save_times>>

\* The outcome of the loop of ProcessTimers.  ord is the iteration order;
\* fault_at = 0 is a scan without a fault, fault_at = k a scan that throws
\* at the k-th record, at its allocation number fault_alloc.
ScanOutcome(ord, fault_at, fault_alloc) ==
  IF ~auto_timers_enabled \/ DOMAIN wars_by_id = {}
  THEN NoScan(wars_by_id)
  ELSE IF fault_at = 0
  THEN TimersFold(wars_by_id, ord, Len(ord), now, config)
  ELSE Interrupted(TimersFold(wars_by_id, ord, fault_at - 1, now, config),
                   ord[fault_at],
                   ProcessWar(wars_by_id[ord[fault_at]], now, config),
                   fault_alloc, now, config)

\* The k-th record of the scan reaches its allocation number fault_alloc.
CanThrow(ord, fault_at, fault_alloc) ==
  /\ auto_timers_enabled
  /\ Allocates(ProcessWar(wars_by_id[ord[fault_at]], now, config))
  /\ fault_alloc = 2 =>
       ProcessWar(wars_by_id[ord[fault_at]], now, config).notes # << >>

\* The tribes whose member count can be read or not (-1), with or without
\* members.
RosterTribes == {10, 20}

\* What TribesDataField can hold: some of the tribes, each with the member
\* count TryGetTribeMemberCount returns for it.
Rosters == UNION {[S -> -1..1] : S \in SUBSET RosterTribes}

\* Mutant: the window of a tribe seen with members again is kept.
UpdateAbandonedTribes_KeepsEntry(cfg, until, tribes, t, ready) ==
  IF \/ ~cfg.enable_abandoned_structure_window
     \/ ~ready
     \/ Max(0, cfg.abandoned_structure_window_seconds) <= 0
  THEN until
  ELSE [p \in {q \in DOMAIN until : until[q] > t}
                \cup {q \in DOMAIN tribes : tribes[q] = 0} |->
          IF p \in DOMAIN tribes /\ tribes[p] = 0
          THEN t + Max(0, cfg.abandoned_structure_window_seconds)
          ELSE until[p]]

\* UpdateAbandonedTribes: abandoned_tribe_until after it.  The entries that
\* have run out are erased; a tribe seen with no members gets the window
\* from now, one seen with members loses its entry, one whose count cannot
\* be read keeps what it has.
UpdateAbandonedTribes(cfg, until, tribes, t, ready) ==
  IF \/ ~cfg.enable_abandoned_structure_window
     \/ ~ready
     \/ Max(0, cfg.abandoned_structure_window_seconds) <= 0
  THEN until
  ELSE [p \in ({q \in DOMAIN until : until[q] > t}
                 \ {q \in DOMAIN tribes : tribes[q] > 0})
                \cup {q \in DOMAIN tribes : tribes[q] = 0} |->
          IF p \in DOMAIN tribes /\ tribes[p] = 0
          THEN t + Max(0, cfg.abandoned_structure_window_seconds)
          ELSE until[p]]

\* The tribe data the callback reads: none when UpdateAbandonedTribes
\* returns before it gets there.
TribesSeen ==
  IF config.enable_abandoned_structure_window /\ server_ready
  THEN Rosters ELSE {<< >>}

\* UpdateAbandonedTribes(Now()) of the callback, the game holding tribes.
ObserveTribes(tribes) ==
  abandoned_tribe_until' =
    UpdateAbandonedTribes(config, abandoned_tribe_until, tribes, now,
                          server_ready)

\* TimerCallback: UpdateAbandonedTribes, ProcessTimers, EnqueueNotifications,
\* FlushNotificationQueue when the server is ready, FlushSaveIfNeeded.  After an exception nothing
\* is erased, need_save is not stored and auto_timers_enabled is cleared;
\* the notifications collected so far are returned.  file_opens is whether
\* SaveData can open data.json.
TimerCallback(ord, fault_at, fault_alloc, file_opens) ==
  /\ plugin_initialized
  /\ fault_at # 0 => CanThrow(ord, fault_at, fault_alloc)
  /\ \E scan \in {ScanOutcome(ord, fault_at, fault_alloc)} :
       \E kept \in {IF fault_at # 0 THEN scan.wars
                    ELSE [id \in (DOMAIN scan.wars) \ scan.remove |->
                            scan.wars[id]]},
          dirty \in BOOLEAN :
         /\ ProcessTimers(scan, fault_at # 0, kept, dirty)
         /\ EnqueueAndFlush(scan.notes)
         /\ FlushSaveIfNeeded(dirty, file_opens)
  /\ \E tribes \in TribesSeen : ObserveTribes(tribes)
  /\ UNCHANGED <<probe, callers, assigned, now, config, next_war_id, server_ready, cancel_callers,
                 threads, handed>>

\* A second passes; the outcome of the last call is kept for the second in
\* which the call was made.
AdvanceClock ==
  /\ now < MaxTime
  /\ now' = now + 1
  /\ last' = Call("", << >>, << >>)
  /\ UNCHANGED <<probe, callers, assigned, config, wars_by_id, tribe_to_war_id, next_war_id, need_save,
                 auto_timers_enabled, server_ready, pending_notifications,
                 last_save, disk, cancel_callers, started_emitted, cooldown_emitted, save_times,
                 threads, handed, abandoned_tribe_until>>

ServerBecomesReady ==
  /\ ~server_ready
  /\ server_ready' = TRUE
  /\ UNCHANGED <<probe, callers, assigned, now, config, wars_by_id, tribe_to_war_id, next_war_id,
                 need_save, auto_timers_enabled, pending_notifications,
                 last_save, disk, cancel_callers, started_emitted, cooldown_emitted, save_times, last,
                 threads, handed, abandoned_tribe_until>>

\* A timer callback whose ProcessTimers runs to its end.
Tick ==
  \E ord \in Orders(DOMAIN wars_by_id) : TimerCallback(ord, 0, 1, FALSE)

\* A timer callback whose ProcessTimers throws.
TickFault ==
  \E ord \in Orders(DOMAIN wars_by_id) :
    \E fault_at \in 1..Len(ord), fault_alloc \in 1..2 :
      TimerCallback(ord, fault_at, fault_alloc, FALSE)

\* Roster answers: nobody is online before the server is ready.
RosterAnswers == IF server_ready THEN BOOLEAN ELSE {FALSE}

\* Alliance answers: AreTribesAllied is called only when the server is ready.
AllianceAnswers == IF server_ready THEN BOOLEAN ELSE {FALSE}

DeclareCmd ==
  \E a, b \in PartyIds, allied \in AllianceAnswers,
     member_online \in RosterAnswers :
    Declare(a, b, allied, member_online)

RequestCancelCmd == \E p \in PartyIds : RequestCancelWar(p)

AcceptCancelCmd == \E p \in PartyIds : AcceptCancelWar(p)

Next ==
  \/ DeclareCmd
  \/ RequestCancelCmd
  \/ AcceptCancelCmd
  \/ Tick
  \/ AdvanceClock
  \/ ServerBecomesReady

\* The engine's operations, each complete before the next starts, without
\* allocation failures.  data.json is read by InitPlugin only, so without a
\* restart its content is never read and the outcome of the open is fixed.
Spec == Init /\ [][Next]_vars

NextFault == Next \/ TickFault

\* Spec with timer callbacks that may throw.
SpecFault == Init /\ [][NextFault]_vars

\* ------------------------------------------------------ abandoned tribes
\* Configurations with the abandoned-structure window off and on, its
\* length negative, zero or up to MaxWindow seconds.
AbandonedConfigValues ==
  {[c EXCEPT !.enable_abandoned_structure_window = e,
             !.abandoned_structure_window_seconds = w] :
     c \in {v \in ConfigValues : ~v.self_test /\ v.war_delay_seconds = 0},
     e \in BOOLEAN, w \in -1..MaxWindow}

\* The engine after InitPlugin under one of these configurations.
InitAbandoned ==
  /\ now = StartTime
  /\ config \in AbandonedConfigValues
  /\ wars_by_id = << >>
  /\ next_war_id = 1
  /\ tribe_to_war_id = << >>
  /\ need_save = TRUE
  /\ auto_timers_enabled = TRUE
  /\ server_ready \in BOOLEAN
  /\ pending_notifications = << >>
  /\ last_save = 0
  /\ disk = NoFile
  /\ cancel_callers = {}
  /\ started_emitted = << >>
  /\ cooldown_emitted = << >>
  /\ save_times = << >>
  /\ threads = [t \in Threads |-> IdleThread]
  /\ handed = << >>
  /\ abandoned_tribe_until = << >>
  /\ last = Call("", << >>, << >>)
  /\ probe = << >>
  /\ callers = [c \in Callers |-> Idle]
  /\ assigned = {}

NextAbandoned ==
  \/ Tick
  \/ AdvanceClock
  \/ ServerBecomesReady

\* Timer callbacks that see tribes lose and regain their members.
SpecAbandoned == InitAbandoned /\ [][NextAbandoned]_vars

\* ---------------------------------------------------------- status query
\* AreTribesAllied for the alliances allies, a set of two-party sets.
AreTribesAllied(allies, tribe_a, tribe_b) == {tribe_a, tribe_b} \in allies

\* The side of war on which tribe_id stands, directly or through an
\* alliance; 0 when it stands on neither side or on both.
SideRoot(war, tribe_id, allies) ==
  LET on_a == tribe_id = war.tribe_a
                \/ AreTribesAllied(allies, tribe_id, war.tribe_a)
      on_b == tribe_id = war.tribe_b
                \/ AreTribesAllied(allies, tribe_id, war.tribe_b)
  IN IF on_a = on_b THEN 0 ELSE IF on_a THEN war.tribe_a ELSE war.tribe_b

\* The loop of GetWarForSideCopy from position i of iteration order ord on.
RECURSIVE SideScan(_, _, _, _, _, _)
SideScan(wars, tribe_id, t, ord, allies, i) ==
  IF i > Len(ord) THEN [war_id |-> 0, side_root |-> 0]
  ELSE IF GetPhase(wars[ord[i]], t) = "None"
          \/ SideRoot(wars[ord[i]], tribe_id, allies) = 0
  THEN SideScan(wars, tribe_id, t, ord, allies, i + 1)
  ELSE [war_id |-> ord[i],
        side_root |-> SideRoot(wars[ord[i]], tribe_id, allies)]

\* GetWarForSideCopy: the war of tribe_id as a direct participant, else the
\* first war in iteration order with an allied side; war_id 0 stands for
\* nullopt.  game_mode is whether GetShooterGameMode returns an object.
GetWarForSideCopy(wars, index, tribe_id, t, ord, allies, game_mode) ==
  IF tribe_id = 0 THEN [war_id |-> 0, side_root |-> 0]
  ELSE IF GetWarForTribeCopy(wars, index, tribe_id, t) # 0
  THEN [war_id |-> GetWarForTribeCopy(wars, index, tribe_id, t),
        side_root |->
          IF tribe_id = wars[GetWarForTribeCopy(wars, index, tribe_id, t)].tribe_a
          THEN tribe_id
          ELSE wars[GetWarForTribeCopy(wars, index, tribe_id, t)].tribe_b]
  ELSE IF ~game_mode THEN [war_id |-> 0, side_root |-> 0]
  ELSE SideScan(wars, tribe_id, t, ord, allies, 1)

\* Mutant: the cooldown shown is that of the other side.
GetStatusText_OtherSide(wars, war_id, tribe_id, t) ==
  IF war_id = 0 THEN [text |-> "no_war", remain |-> 0]
  ELSE IF GetPhase(wars[war_id], t) = "Pending"
  THEN [text |-> "pending", remain |-> Max(0, wars[war_id].start_at - t)]
  ELSE IF GetPhase(wars[war_id], t) = "Active"
  THEN [text |-> "active", remain |-> 0]
  ELSE IF GetPhase(wars[war_id], t) = "Cooldown"
  THEN [text |-> "cooldown",
        remain |-> Max(0, (IF tribe_id = wars[war_id].tribe_a
                           THEN wars[war_id].cooldown_end_b
                           ELSE IF tribe_id = wars[war_id].tribe_b
                           THEN wars[war_id].cooldown_end_a
                           ELSE 0) - t)]
  ELSE [text |-> "no_war", remain |-> 0]

\* GetStatusText(war, tribe_id): the kind of text and the remaining seconds.
GetStatusText(wars, war_id, tribe_id, t) ==
  IF war_id = 0 THEN [text |-> "no_war", remain |-> 0]
  ELSE IF GetPhase(wars[war_id], t) = "Pending"
  THEN [text |-> "pending", remain |-> Max(0, wars[war_id].start_at - t)]
  ELSE IF GetPhase(wars[war_id], t) = "Active"
  THEN [text |-> "active", remain |-> 0]
  ELSE IF GetPhase(wars[war_id], t) = "Cooldown"
  THEN [text |-> "cooldown",
        remain |-> Max(0, (IF tribe_id = wars[war_id].tribe_a
                           THEN wars[war_id].cooldown_end_a
                           ELSE IF tribe_id = wars[war_id].tribe_b
                           THEN wars[war_id].cooldown_end_b
                           ELSE 0) - t)]
  ELSE [text |-> "no_war", remain |-> 0]

\* CmdWarStatus of a leader of tribe_id: the status text.
CmdWarStatus(wars, index, tribe_id, t, ord, allies, game_mode) ==
  GetStatusText(
    wars,
    GetWarForSideCopy(wars, index, tribe_id, t, ord, allies, game_mode).war_id,
    IF GetWarForSideCopy(wars, index, tribe_id, t, ord, allies,
                         game_mode).war_id # 0
    THEN GetWarForSideCopy(wars, index, tribe_id, t, ord, allies,
                           game_mode).side_root
    ELSE tribe_id,
    t)

\* The alliances the game can report among the parties.
Alliances == SUBSET {pair \in SUBSET Tribes : Cardinality(pair) = 2}

\* ------------------------------------------------------- structure damage
\* Mutant: a war counts as Active only once its start has been notified.
GetActiveWarsSnapshot_Notified(wars, t) ==
  {id \in DOMAIN wars : IsActiveWar(wars[id], t) /\ wars[id].start_notified}

\* GetActiveWarsSnapshot: the ids of the records that are Active at t.
GetActiveWarsSnapshot(wars, t) ==
  {id \in DOMAIN wars : IsActiveWar(wars[id], t)}

\* IsAbandonedStructureVulnerable: enabled is
\* config.enable_abandoned_structure_window, until the entry of the party in
\* abandoned_tribe_until (0 for none).
IsAbandonedStructureVulnerable(enabled, until, target_tribe, t) ==
  /\ enabled
  /\ CanonicalTribeId(target_tribe) # 0
  /\ until # 0
  /\ until > t

\* IsOnSide of IsStructureDamageAllowed.
IsOnSide(allies, tribe_id, side_tribe) ==
  \/ tribe_id = side_tribe
  \/ (tribe_id # 0 /\ side_tribe # 0
      /\ AreTribesAllied(allies, tribe_id, side_tribe))

\* Mutant: any Active war of the attacker opens every structure to it.
Opposing_AttackerOnly(war, allies, attacker_tribe, target_tribe) ==
  \/ IsOnSide(allies, attacker_tribe, war.tribe_a)
  \/ IsOnSide(allies, attacker_tribe, war.tribe_b)

\* The test of the loop of IsStructureDamageAllowed on one Active war.
Opposing(war, allies, attacker_tribe, target_tribe) ==
  \/ /\ IsOnSide(allies, attacker_tribe, war.tribe_a)
     /\ IsOnSide(allies, target_tribe, war.tribe_b)
  \/ /\ IsOnSide(allies, attacker_tribe, war.tribe_b)
     /\ IsOnSide(allies, target_tribe, war.tribe_a)

\* The answer of IsStructureDamageAllowed and out_multiplier, which is 1.0
\* or one of the two configured values.
Damage(allowed, multiplier) == [allowed |-> allowed, multiplier |-> multiplier]

\* IsStructureDamageAllowed.  hit = [structure, excluded, target_tribe,
\* attacker_tribe, until]: whether there is a structure, whether it is an
\* excluded one, its team, the tribe of the instigator or causer and the
\* entry of the target in abandoned_tribe_until; env = [ready, game_mode,
\* allies, window]: the server status, whether there is a game mode, the
\* alliances and config.enable_abandoned_structure_window.
IsStructureDamageAllowed(wars, t, hit, env) ==
  IF ~hit.structure THEN Damage(TRUE, "1.0")
  ELSE IF ~env.ready THEN Damage(FALSE, "1.0")
  ELSE IF hit.excluded THEN Damage(TRUE, "1.0")
  ELSE IF CanonicalTribeId(hit.target_tribe) = 0 \/ hit.attacker_tribe = 0
  THEN IF IsAbandonedStructureVulnerable(env.window, hit.until,
                                         hit.target_tribe, t)
       THEN Damage(TRUE, "abandoned_structure_damage_multiplier")
       ELSE Damage(FALSE, "1.0")
  ELSE IF CanonicalTribeId(hit.target_tribe) = hit.attacker_tribe
  THEN Damage(TRUE, "1.0")
  ELSE IF IsAbandonedStructureVulnerable(env.window, hit.until,
                                         hit.target_tribe, t)
  THEN Damage(TRUE, "abandoned_structure_damage_multiplier")
  ELSE IF ~env.game_mode THEN Damage(FALSE, "1.0")
  ELSE IF \E id \in GetActiveWarsSnapshot(wars, t) :
            Opposing(wars[id], env.allies, hit.attacker_tribe,
                     CanonicalTribeId(hit.target_tribe))
  THEN Damage(TRUE, "structure_damage_multiplier")
  ELSE Damage(FALSE, "1.0")

\* ------------------------------------------------------------ persistence
\* item.value(key, 0) reads a number as int: the value wraps to the scaled
\* width IntBits.
IntRange == 2 ^ IntBits

AsInt(x) == ((x + IntRange \div 2) % IntRange) - IntRange \div 2

\* The WarRecord LoadData builds from an item of the "wars" array.
LoadedWar(item) ==
  [item EXCEPT !.war_id = AsInt(@),
               !.tribe_a = CanonicalTribeId(@),
               !.tribe_b = CanonicalTribeId(@),
               !.declared_at = AsInt(@), !.start_at = AsInt(@),
               !.ended_at = AsInt(@), !.cooldown_end_a = AsInt(@),
               !.cooldown_end_b = AsInt(@)]

\* The records LoadData skips.
Discards(war, t, cfg) ==
  \/ war.war_id <= 0
  \/ war.tribe_a = 0 \/ war.tribe_b = 0
  \/ /\ war.ended_at # 0
     /\ \/ /\ war.cooldown_end_a > 0 /\ war.cooldown_end_b > 0
           /\ t >= war.cooldown_end_a /\ t >= war.cooldown_end_b
        \/ /\ war.declared_at > 0
           /\ t - war.declared_at > cfg.cooldown_seconds * 2 + StaleSlack

\* loaded_wars of LoadData.
LoadedWars(file, t, cfg) ==
  {LoadedWar(item) : item \in file.wars} \ 
  {LoadedWar(item) : item \in {i \in file.wars : Discards(LoadedWar(i), t, cfg)}}

\* LoadData without its exception handler taking effect: a file of the
\* wrong type is stored as far as it reads.
LoadData_NoHandler(file, t, cfg, wars, next_id) ==
  IF file.state \in {"missing", "unparsable"}
  THEN [wars |-> wars, next_war_id |-> next_id, read |-> FALSE]
  ELSE [wars |-> [id \in {w.war_id : w \in LoadedWars(file, t, cfg)} |->
                    CHOOSE w \in LoadedWars(file, t, cfg) : w.war_id = id],
        next_war_id |-> file.next_war_id, read |-> TRUE]

\* LoadData on the store (wars, next_id): a file that is missing or does not
\* parse leaves the store as it is; a file whose values have the wrong type
\* throws, and the handler clears the store and resets the counter;
\* otherwise the store is cleared and filled from the file, next_war_id
\* taken as the file gives it.  The ids of a file SaveData wrote are
\* distinct.
LoadData(file, t, cfg, wars, next_id) ==
  IF file.state \in {"missing", "unparsable"}
  THEN [wars |-> wars, next_war_id |-> next_id, read |-> FALSE]
  ELSE IF file.state = "ill_typed"
  THEN [wars |-> << >>, next_war_id |-> 1, read |-> TRUE]
  ELSE [wars |-> [id \in {w.war_id : w \in LoadedWars(file, t, cfg)} |->
                    CHOOSE w \in LoadedWars(file, t, cfg) : w.war_id = id],
        next_war_id |-> file.next_war_id, read |-> TRUE]

\* The globals of a fresh process, then InitPlugin: LoadData, need_save when
\* data.json does not exist or in self-test, SeedSelfTestWarIfNeeded.
InitPlugin(file) ==
  \E loaded \in {LoadData(file, now, config, << >>, 1)} :
    \E seed \in {SeedSelfTestWarIfNeeded(config, loaded.wars,
                                         loaded.next_war_id, now)} :
      /\ wars_by_id' = seed.wars
      /\ next_war_id' = seed.next_war_id
      /\ IF seed.seeded \/ loaded.read
         THEN \E ord \in Orders(DOMAIN seed.wars) :
                tribe_to_war_id' = RebuildTribeIndexLocked(seed.wars, now, ord)
         ELSE tribe_to_war_id' = << >>
      /\ need_save' = (file.state = "missing" \/ config.self_test)
      /\ auto_timers_enabled' = TRUE
      /\ pending_notifications' = << >>
      /\ last_save' = 0

\* The plugin is unloaded and loaded again.  clean: Unload runs and calls
\* SaveData, which writes when it can open the file; otherwise the process
\* died without it.  The server may have to become ready again.
RestartPlugin(clean, file_opens) ==
  /\ plugin_initialized
  /\ \A k \in DOMAIN started_emitted : started_emitted[k] < MaxStarted
  /\ disk' = IF clean /\ file_opens THEN SaveData(next_war_id, wars_by_id)
             ELSE disk
  /\ InitPlugin(disk')
  /\ server_ready' \in (IF clean THEN {server_ready, FALSE} ELSE {FALSE})
  /\ last' = Call("", << >>, << >>)
  /\ save_times' = << >>
  /\ abandoned_tribe_until' = << >>
  /\ UNCHANGED <<probe, callers, assigned, now, config, cancel_callers,
                 started_emitted, cooldown_emitted,
                 threads, handed>>

Restart == \E clean, file_opens \in BOOLEAN : RestartPlugin(clean, file_opens)

\* The data.json files that come from outside the program (a restored or
\* edited file): one war and the counter the file names; a file without
\* "next_war_id" reads as 1.
ForeignFiles ==
  {[state |-> "written", next_war_id |-> n,
    wars |-> {DeclaredWar(id, 10, 20, StartTime, config)}] :
     n \in 1..MaxWarId, id \in 1..MaxWarId}

\* data.json is replaced while the plugin runs or is stopped.
ReplaceFile ==
  /\ disk' \in ForeignFiles
  /\ UNCHANGED <<now, config, wars_by_id, tribe_to_war_id, next_war_id,
                 need_save, auto_timers_enabled, server_ready,
                 pending_notifications, last_save, cancel_callers,
                 started_emitted, cooldown_emitted, save_times, last, probe, callers, assigned,
                 threads, handed, abandoned_tribe_until>>

\* A timer callback whose SaveData may or may not be able to open the file.
TickSaves ==
  \E ord \in Orders(DOMAIN wars_by_id), file_opens \in BOOLEAN :
    TimerCallback(ord, 0, 1, file_opens)

NextPersist ==
  \/ DeclareCmd
  \/ TickSaves
  \/ AdvanceClock
  \/ ServerBecomesReady
  \/ Restart
  \/ ReplaceFile

InitPersist ==
  Init /\ ~config.self_test /\ config.war_delay_seconds = MaxWarDelay

\* The engine with its file: declarations, saves, unloads and restarts.
SpecPersist == InitPersist /\ [][NextPersist]_vars

\* ------------------------------------------- a server that has run long
\* The first second at which a war declared at StartTime is older than the
\* bound LoadData puts on ended records.
LateTime == StartTime + 2 * MaxCooldown + StaleSlack + 1

\* The last second of the long run.
LastTime == LateTime + MaxCooldown + 1

\* A war between 10 and 20 that was declared at declared_at and has started.
LongWar(declared_at, cfg) ==
  [DeclaredWar(1, 10, 20, declared_at, cfg) EXCEPT !.start_notified = TRUE]

\* The server at LateTime: the war was declared long ago or a second ago,
\* its start has been announced and the store has been saved since.
InitLate ==
  /\ now = LateTime
  /\ config \in {c \in ConfigValues : ~c.self_test /\ c.war_delay_seconds = 0}
  /\ \E declared_at \in {StartTime, LateTime - 1} :
       /\ wars_by_id = [id \in {1} |-> LongWar(declared_at, config)]
       /\ last_save = declared_at
  /\ tribe_to_war_id = RebuildTribeIndexLocked(wars_by_id, now, <<1>>)
  /\ next_war_id = 2
  /\ need_save = FALSE
  /\ auto_timers_enabled = TRUE
  /\ server_ready = TRUE
  /\ pending_notifications = << >>
  /\ disk = SaveData(next_war_id, wars_by_id)
  /\ cancel_callers = {}
  /\ started_emitted = [k \in {<<1, 10>>, <<1, 20>>} |-> 1]
  /\ cooldown_emitted = << >>
  /\ save_times = <<last_save>>
  /\ threads = [t \in Threads |-> IdleThread]
  /\ handed = << >>
  /\ abandoned_tribe_until = << >>
  /\ last = Call("", << >>, << >>)
  /\ probe = << >>
  /\ callers = [c \in Callers |-> Idle]
  /\ assigned = {1}

\* A second passes late in the run.
AdvanceLate ==
  /\ now < LastTime
  /\ now' = now + 1
  /\ last' = Call("", << >>, << >>)
  /\ UNCHANGED <<probe, callers, assigned, config, wars_by_id,
                 tribe_to_war_id, next_war_id, need_save,
                 auto_timers_enabled, server_ready, pending_notifications,
                 last_save, disk, cancel_callers, started_emitted,
                 cooldown_emitted, save_times,
                 threads, handed, abandoned_tribe_until>>

\* The records of an edited data.json: a war between 10 and 20 declared a
\* second ago, not ended or ended with its cooldown ends absent, past or
\* still to come; or with an id that is not positive, or with a first
\* party that is zero or a multiple of the tribe-id range; or a war of party
\* 20 with itself; or a war that has not ended and has cooldown ends.
EditedRecords ==
  {[NewWarRecord EXCEPT !.war_id = who[1], !.tribe_a = who[2],
      !.tribe_b = 20, !.declared_at = LateTime - 1,
      !.start_at = LateTime - 1, !.ended_at = ends[1],
      !.cooldown_end_a = ends[2], !.cooldown_end_b = ends[3]] :
     who \in {<<1, 10>>, <<0, 10>>, <<-1, 10>>, <<1, 0>>,
              <<1, TribeIdRange>>},
     ends \in {<<0, 0, 0>>, <<LateTime - 1, 0, 0>>,
               <<LateTime - 1, 0, LateTime>>,
               <<LateTime - 1, LateTime, LateTime>>,
               <<LateTime - 1, LastTime, LastTime>>}}
  \cup {[NewWarRecord EXCEPT !.war_id = 1, !.tribe_a = 20, !.tribe_b = 20,
           !.declared_at = LateTime - 1, !.start_at = LateTime - 1],
         [NewWarRecord EXCEPT !.war_id = 1, !.tribe_a = 10, !.tribe_b = 20,
           !.declared_at = LateTime - 1, !.start_at = LateTime - 1,
           !.cooldown_end_a = LastTime, !.cooldown_end_b = LastTime]}

\* The edited files: one record; a text that is not JSON; JSON whose values
\* have the wrong type.
EditedFiles ==
  {[state |-> "written", next_war_id |-> 2, wars |-> {r}] :
     r \in EditedRecords}
  \cup {[state |-> st, next_war_id |-> 0, wars |-> {}] :
          st \in {"unparsable", "ill_typed"}}

\* data.json is edited or deleted.
EditFile ==
  /\ disk' \in EditedFiles \cup {NoFile}
  /\ UNCHANGED <<now, config, wars_by_id, tribe_to_war_id, next_war_id,
                 need_save, auto_timers_enabled, server_ready,
                 pending_notifications, last_save, cancel_callers,
                 started_emitted, cooldown_emitted, save_times, last, probe, callers,
                 assigned,
                 threads, handed, abandoned_tribe_until>>

NextLate ==
  \/ RequestCancelCmd
  \/ AcceptCancelCmd
  \/ TickSaves
  \/ AdvanceLate
  \/ Restart

\* The engine late in a long run: the war is cancelled, saved and loaded.
SpecLate == InitLate /\ [][NextLate]_vars

NextLoad ==
  \/ EditFile
  \/ Restart
  \/ AdvanceLate
  \/ DeclareCmd

\* The engine started on whatever data.json holds, and the declarations
\* made after it.
SpecLoad == InitLate /\ [][NextLoad]_vars

\* ---------------------------------------------------- files without start_at
\* A data.json whose record has no start_at (read as 0): a war between 10
\* and 20 that has not ended, declared at an unknown time (0), a second ago
\* or this second.
LegacyFiles ==
  {[state |-> "written", next_war_id |-> 2,
    wars |-> {[NewWarRecord EXCEPT !.war_id = 1, !.tribe_a = 10,
                                   !.tribe_b = 20, !.declared_at = d]}] :
     d \in {0, StartTime - 1, StartTime}}

\* The engine after InitPlugin has loaded such a file, the war delay being
\* MaxWarDelay seconds.
InitLegacy ==
  /\ now = StartTime
  /\ config \in {c \in ConfigValues :
                   ~c.self_test /\ c.war_delay_seconds = MaxWarDelay}
  /\ disk \in LegacyFiles
  /\ wars_by_id = LoadData(disk, now, config, << >>, 1).wars
  /\ next_war_id = LoadData(disk, now, config, << >>, 1).next_war_id
  /\ tribe_to_war_id = RebuildTribeIndexLocked(wars_by_id, now, <<1>>)
  /\ need_save = FALSE
  /\ auto_timers_enabled = TRUE
  /\ server_ready \in BOOLEAN
  /\ pending_notifications = << >>
  /\ last_save = 0
  /\ cancel_callers = {}
  /\ started_emitted = << >>
  /\ cooldown_emitted = << >>
  /\ save_times = << >>
  /\ threads = [t \in Threads |-> IdleThread]
  /\ handed = << >>
  /\ abandoned_tribe_until = << >>
  /\ last = Call("", << >>, << >>)
  /\ probe = << >>
  /\ callers = [c \in Callers |-> Idle]
  /\ assigned = {}

NextLegacy ==
  \/ RequestCancelCmd
  \/ AcceptCancelCmd
  \/ Tick
  \/ AdvanceClock
  \/ ServerBecomesReady

\* The engine's operations on a war loaded from a file without start_at.
SpecLegacy == InitLegacy /\ [][NextLegacy]_vars

\* ------------------------------------------------- the debounce of saves
\* The last second of the run that is watched for its saves.
SaveHorizon == LateTime + 2 * MinSaveInterval

\* Time passes: a second, or a second less than the save interval.
Wait ==
  /\ \E seconds \in {1, MinSaveInterval - 1} :
       /\ now + seconds <= SaveHorizon
       /\ now' = now + seconds
  /\ last' = Call("", << >>, << >>)
  /\ UNCHANGED <<probe, callers, assigned, config, wars_by_id,
                 tribe_to_war_id, next_war_id, need_save,
                 auto_timers_enabled, server_ready, pending_notifications,
                 last_save, disk, cancel_callers, started_emitted,
                 cooldown_emitted, save_times,
                 threads, handed, abandoned_tribe_until>>

NextSave ==
  \/ RequestCancelCmd
  \/ TickSaves
  \/ Wait

\* The engine over a minute: cancel requests make the store dirty, timer
\* callbacks save it.
SpecSave == InitLate /\ [][NextSave]_vars

\* ------------------------------------------------ the notification queue
\* The notifications threads 1..n hold outside the queue: swapped out by a
\* flush and not yet handed out (pc "deliver"), or about to be enqueued.
RECURSIVE HeldBy(_, _)
HeldBy(n, pc) ==
  IF n = 0 THEN 0
  ELSE HeldBy(n - 1, pc)
       + (IF threads[n].pc # pc THEN 0
          ELSE IF pc = "deliver" THEN Len(threads[n].local)
          ELSE Len(threads[n].notes))

\* The notifications that have entered the queue: those handed out, those
\* swapped out by a flush and not yet handed out, those still queued.
Entered ==
  Len(handed) + Len(pending_notifications) + HeldBy(MaxThreads, "deliver")

\* The notifications on their way into the queue.
Arriving == HeldBy(MaxThreads, "lock") + HeldBy(MaxThreads, "insert")

\* The k-th notification to enter the queue.
QueuedNote(k) == Note(k, "queued", FALSE)

\* Mutant: a lock that excludes nobody.
CanLock_Always(lock) == TRUE

\* std::lock_guard on a WinMutex: the lock is free.
CanLock(lock) == \A t \in Threads : lock \notin threads[t].holds

\* The rest of the model stands still while the threads run.
ThreadFrame ==
  UNCHANGED <<now, config, wars_by_id, tribe_to_war_id, next_war_id,
              need_save, auto_timers_enabled, server_ready, last_save, disk,
              cancel_callers, started_emitted, cooldown_emitted, save_times,
              last, probe, callers, assigned, abandoned_tribe_until>>

\* EnqueueNotifications is called with count notes; an empty vector returns
\* at once.
EnqueueBegin(t, count) ==
  /\ threads[t].op = "idle"
  /\ Entered + Arriving + count <= MaxNotes
  /\ threads' = [threads EXCEPT ![t] =
                   IF count = 0 THEN IdleThread
                   ELSE [IdleThread EXCEPT !.op = "enqueue", !.pc = "lock",
                           !.notes = [i \in 1..count |-> i]]]
  /\ UNCHANGED <<pending_notifications, handed>>
  /\ ThreadFrame

\* The lock guard of EnqueueNotifications and of FlushNotificationQueue.
LockQueue(t) ==
  /\ threads[t].pc = "lock"
  /\ CanLock("notification_mutex")
  /\ threads' = [threads EXCEPT ![t].holds = @ \cup {"notification_mutex"},
                                ![t].pc = IF threads[t].op = "enqueue"
                                          THEN "insert" ELSE "take"]
  /\ UNCHANGED <<pending_notifications, handed>>
  /\ ThreadFrame

\* pending_notifications.insert at the end, then the guard is released.
EnqueueInsert(t) ==
  /\ threads[t].pc = "insert"
  /\ pending_notifications' =
       pending_notifications \o
       [i \in DOMAIN threads[t].notes |-> QueuedNote(Entered + i)]
  /\ threads' = [threads EXCEPT ![t] = IdleThread]
  /\ UNCHANGED handed
  /\ ThreadFrame

\* FlushNotificationQueue is called.
FlushBegin(t) ==
  /\ threads[t].op = "idle"
  /\ threads' = [threads EXCEPT ![t] =
                   [IdleThread EXCEPT !.op = "flush", !.pc = "lock"]]
  /\ UNCHANGED <<pending_notifications, handed>>
  /\ ThreadFrame

\* An empty queue returns; otherwise local.swap takes the elements.
FlushTake(t) ==
  /\ threads[t].pc = "take"
  /\ threads' = [threads EXCEPT ![t] =
                   IF pending_notifications = << >> THEN IdleThread
                   ELSE [@ EXCEPT !.pc = "clear",
                                  !.local = pending_notifications,
                                  !.flush = Entered]]
  /\ UNCHANGED <<pending_notifications, handed>>
  /\ ThreadFrame

\* local.swap leaves the queue empty; the guard is released.
FlushClear(t) ==
  /\ threads[t].pc = "clear"
  /\ pending_notifications' = << >>
  /\ threads' = [threads EXCEPT ![t].pc = "deliver", ![t].holds = {}]
  /\ UNCHANGED handed
  /\ ThreadFrame

\* The loop over local: NotifySide or NotifySideStyled for the next note.
Deliver(t) ==
  /\ threads[t].pc = "deliver"
  /\ handed' = Append(handed, [note |-> Head(threads[t].local),
                               flush |-> threads[t].flush])
  /\ threads' = [threads EXCEPT ![t] =
                   IF Len(threads[t].local) = 1 THEN IdleThread
                   ELSE [@ EXCEPT !.local = Tail(@)]]
  /\ UNCHANGED pending_notifications
  /\ ThreadFrame

NextQueue ==
  \E t \in Threads :
    \/ \E count \in 0..2 : EnqueueBegin(t, count)
    \/ LockQueue(t)
    \/ EnqueueInsert(t)
    \/ FlushBegin(t)
    \/ FlushTake(t)
    \/ FlushClear(t)
    \/ Deliver(t)

InitQueue ==
  Init /\ server_ready /\ ~config.self_test /\ config.war_delay_seconds = 0

\* Threads that enqueue and flush notifications at the same time.
SpecQueue == InitQueue /\ [][NextQueue]_vars

\* ------------------------------------------------------- lock discipline
\* What a function does to the locks and to the world outside the store,
\* in program order.
Acquire(lock) == [kind |-> "acquire", arg |-> lock]
Release(lock) == [kind |-> "release", arg |-> lock]
External(what) == [kind |-> "call", arg |-> what]

\* A block under a lock guard.
Guarded(lock, inside) == <<Acquire(lock)>> \o inside \o <<Release(lock)>>

\* GetWarForTribeCopy, IsTribeInCooldown, HasIncomingCancel,
\* GetCachedTribeName, CacheTribeName, GetActiveWarsSnapshot,
\* IsAbandonedStructureVulnerable: one guarded block around the lookup.
LookupLocks == Guarded("data_mutex", << >>)

\* IsWarAllowed: the alliance query, two lookups, the roster query, two
\* cooldown lookups; a check that fails returns.
IsWarAllowedLocks ==
  {<<External("alliance")>>,
   <<External("alliance")>> \o LookupLocks,
   <<External("alliance")>> \o LookupLocks \o LookupLocks,
   <<External("alliance")>> \o LookupLocks \o LookupLocks
     \o <<External("roster")>>,
   <<External("alliance")>> \o LookupLocks \o LookupLocks
     \o <<External("roster")>> \o LookupLocks,
   <<External("alliance")>> \o LookupLocks \o LookupLocks
     \o <<External("roster")>> \o LookupLocks \o LookupLocks}

\* GetTribeDisplayName: the cached name, or the roster and CacheTribeName.
GetTribeDisplayNameLocks ==
  {LookupLocks \o LookupLocks,
   LookupLocks \o <<External("roster")>> \o LookupLocks \o LookupLocks}

\* DeclareWar: the insert under the lock, the names, two messages.
DeclareWarLocks ==
  {LookupLocks \o name_a \o name_b
     \o <<External("messaging"), External("messaging")>> :
     name_a \in GetTribeDisplayNameLocks, name_b \in GetTribeDisplayNameLocks}

\* RequestCancelWar and AcceptCancelWar: return inside the guarded block, or
\* leave it and send two messages.
CancelLocks ==
  {LookupLocks,
   LookupLocks \o <<External("messaging"), External("messaging")>>}

\* Mutant: the direct lookup made from inside the guarded loop.
GetWarForSideCopyLocks_Nested ==
  {Guarded("data_mutex", LookupLocks)}

\* GetWarForSideCopy: the direct lookup; otherwise the loop over the store
\* under the lock, with the alliance query for either side of each war.
GetWarForSideCopyLocks ==
  {LookupLocks,
   LookupLocks \o Guarded("data_mutex", << >>),
   LookupLocks
     \o Guarded("data_mutex", <<External("alliance"), External("alliance")>>)}

\* UpdateTribeNameCache: the roster, then one guarded block per name.
UpdateTribeNameCacheLocks ==
  {<<External("roster")>>, <<External("roster")>> \o LookupLocks}

\* UpdateAbandonedTribes: the tribe list, then under the lock the cleanup and
\* the member count of every tribe.
UpdateAbandonedTribesLocks ==
  {<<External("roster")>> \o LookupLocks,
   <<External("roster")>> \o Guarded("data_mutex", <<External("roster")>>)}

\* ProcessTimers: the scan under the lock; in self-test AppendSelfTestLog
\* writes its file from inside it.
ProcessTimersLocks ==
  {LookupLocks, Guarded("data_mutex", <<External("disk")>>)}

\* EnqueueNotifications.
EnqueueNotificationsLocks == {Guarded("notification_mutex", << >>)}

\* FlushNotificationQueue: an empty queue, or the swap and the messages.
FlushNotificationQueueLocks ==
  {Guarded("notification_mutex", << >>),
   Guarded("notification_mutex", << >>) \o <<External("messaging")>>}

\* SaveData and SaveTribeNameCache: the snapshot under the lock, the file
\* after it.
SaveDataLocks == {LookupLocks \o <<External("disk")>>}

\* LoadData and LoadTribeNameCache: the file, then the store under the lock.
LoadDataLocks == {<<External("disk")>>, <<External("disk")>> \o LookupLocks}

\* SeedSelfTestWarIfNeeded: return inside the guarded block, or the insert
\* and AppendSelfTestLog inside it.
SeedSelfTestWarLocks ==
  {LookupLocks, Guarded("data_mutex", <<External("disk")>>)}

\* IsStructureDamageAllowed: the abandoned window, the snapshot, then the
\* alliance queries.
IsStructureDamageAllowedLocks ==
  {LookupLocks,
   LookupLocks \o LookupLocks,
   LookupLocks \o LookupLocks
     \o <<External("alliance"), External("alliance")>>}

\* The functions threads call, each with its paths.
Functions ==
  [IsWarAllowed |-> IsWarAllowedLocks,
   DeclareWar |-> DeclareWarLocks,
   RequestCancelWar |-> CancelLocks,
   AcceptCancelWar |-> CancelLocks,
   HasIncomingCancel |-> {LookupLocks},
   GetWarForSideCopy |-> GetWarForSideCopyLocks,
   UpdateTribeNameCache |-> UpdateTribeNameCacheLocks,
   UpdateAbandonedTribes |-> UpdateAbandonedTribesLocks,
   ProcessTimers |-> ProcessTimersLocks,
   EnqueueNotifications |-> EnqueueNotificationsLocks,
   FlushNotificationQueue |-> FlushNotificationQueueLocks,
   SaveData |-> SaveDataLocks,
   LoadData |-> LoadDataLocks,
   SeedSelfTestWarIfNeeded |-> SeedSelfTestWarLocks,
   IsStructureDamageAllowed |-> IsStructureDamageAllowedLocks]

\* The threads that run these functions.
Runners == 1..MaxRunners

\* Thread t calls function f and takes one of its paths.
BeginCall(t, f) ==
  /\ threads[t].op = "idle"
  /\ \E path \in Functions[f] :
       threads' = [threads EXCEPT ![t] =
                     [@ EXCEPT !.op = f, !.pc = "run", !.path = path,
                               !.at = 1]]
  /\ UNCHANGED <<pending_notifications, handed>>
  /\ ThreadFrame

\* The locks thread t holds after the operation it is at.
HoldsAfter(t) ==
  IF threads[t].path[threads[t].at].kind = "acquire"
  THEN threads[t].holds \cup {threads[t].path[threads[t].at].arg}
  ELSE IF threads[t].path[threads[t].at].kind = "release"
  THEN threads[t].holds \ {threads[t].path[threads[t].at].arg}
  ELSE threads[t].holds

\* Thread t makes its next move: a lock guard waits until the lock is free;
\* after the last move the function has returned.
StepCall(t) ==
  /\ threads[t].pc = "run"
  /\ threads[t].path[threads[t].at].kind = "acquire" =>
       CanLock(threads[t].path[threads[t].at].arg)
  /\ threads' = [threads EXCEPT ![t] =
                   IF threads[t].at = Len(threads[t].path)
                   THEN [IdleThread EXCEPT !.holds = HoldsAfter(t)]
                   ELSE [@ EXCEPT !.holds = HoldsAfter(t), !.at = @ + 1]]
  /\ UNCHANGED <<pending_notifications, handed>>
  /\ ThreadFrame

NextLock ==
  \E t \in Runners :
    \/ \E f \in DOMAIN Functions : BeginCall(t, f)
    \/ StepCall(t)

\* Threads that call into the plugin at the same time.
SpecLock == InitQueue /\ [][NextLock]_vars

\* The same with a scheduler that lets every thread run and a lock that
\* does not pass a waiting thread by for ever.
SpecLockFair == SpecLock /\ \A t \in Runners : SF_vars(StepCall(t))

\* ---------------------------------------------------------------- queries
\* Mutant: the caller's own flag is returned.
HasIncomingCancel_OwnFlag(wars, index, raw_id) ==
  LET tribe_id == CanonicalTribeId(raw_id)
      id == GetWarForTribeLocked(wars, index, tribe_id)
  IN IF id = 0 THEN FALSE
     ELSE IF tribe_id = wars[id].tribe_a THEN wars[id].cancel_requested_by_a
     ELSE IF tribe_id = wars[id].tribe_b THEN wars[id].cancel_requested_by_b
     ELSE FALSE

\* HasIncomingCancel: the flag of the other side of the indexed record.
HasIncomingCancel(wars, index, raw_id) ==
  LET tribe_id == CanonicalTribeId(raw_id)
      id == GetWarForTribeLocked(wars, index, tribe_id)
  IN IF id = 0 THEN FALSE
     ELSE IF tribe_id = wars[id].tribe_a THEN wars[id].cancel_requested_by_b
     ELSE IF tribe_id = wars[id].tribe_b THEN wars[id].cancel_requested_by_a
     ELSE FALSE

\* What a query returned to its caller.
QueryCall(op, args, result) ==
  [reason |-> "", notes |-> << >>, delivered |-> << >>, before |-> << >>,
   args |-> args, op |-> op, result |-> result]

\* A caller asks HasIncomingCancel(p).
HasIncomingCancelCmd ==
  /\ \E p \in PartyIds :
       last' = QueryCall("has_incoming_cancel", <<p>>,
                         HasIncomingCancel(wars_by_id, tribe_to_war_id, p))
  /\ UNCHANGED <<now, config, wars_by_id, tribe_to_war_id, next_war_id,
                 need_save, auto_timers_enabled, server_ready,
                 pending_notifications, last_save, disk, cancel_callers,
                 started_emitted, cooldown_emitted, save_times, probe,
                 callers, assigned, threads, handed, abandoned_tribe_until>>

NextQuery == Next \/ HasIncomingCancelCmd

\* The engine's operations and the queries of the command handlers.
SpecQuery == Init /\ [][NextQuery]_vars

\* CmdWarAcceptCancel (and the accept entry of HandleMenuAction, which makes
\* the last two checks): the caller's tribe, whether the caller is its
\* leader or an admin, then the two checks before AcceptCancelWar.
CmdWarAcceptCancel(tribe_id, is_leader) ==
  IF /\ tribe_id # 0
     /\ is_leader
     /\ GetWarForTribeCopy(wars_by_id, tribe_to_war_id, tribe_id, now) # 0
     /\ HasIncomingCancel(wars_by_id, tribe_to_war_id, tribe_id)
  THEN AcceptCancelWar(tribe_id)
  ELSE /\ last' = Call("", << >>, << >>)
       /\ UNCHANGED <<now, config, wars_by_id, tribe_to_war_id, next_war_id,
                      need_save, auto_timers_enabled, server_ready,
                      pending_notifications, last_save, disk, cancel_callers,
                      started_emitted, cooldown_emitted, save_times, probe,
                      callers, assigned, threads, handed,
                      abandoned_tribe_until>>

CmdWarAcceptCancelCmd ==
  \E p \in PartyIds, is_leader \in BOOLEAN : CmdWarAcceptCancel(p, is_leader)

NextCommand ==
  \/ DeclareCmd
  \/ RequestCancelCmd
  \/ CmdWarAcceptCancelCmd
  \/ Tick
  \/ AdvanceClock
  \/ ServerBecomesReady

\* The engine with AcceptCancelWar reached through the command only.
SpecCommand == Init /\ [][NextCommand]_vars

\* ------------------------------------------------- commands run in parallel
\* CmdWarDeclareId on thread c, one step per critical section of data_mutex
\* and per question to the host.  pc names the step to take next.
Goto(c, pc) == callers' = [callers EXCEPT ![c].pc = pc]

\* The command returns: with reason "ok" after DeclareWar, else with the
\* reason IsWarAllowed gave.
Return(c, reason) ==
  callers' = [callers EXCEPT ![c].pc = "done", ![c].reason = reason]

\* What a step of the eligibility check leaves alone.
CheckFrame ==
  UNCHANGED <<now, config, wars_by_id, tribe_to_war_id, next_war_id,
              need_save, auto_timers_enabled, server_ready,
              pending_notifications, last_save, disk, cancel_callers,
              started_emitted, cooldown_emitted, save_times, last, probe, assigned,
                 threads, handed, abandoned_tribe_until>>

\* The command is entered: the parties and now = Now() are fixed.
BeginDeclare(c) ==
  /\ callers[c].pc = "idle"
  /\ \E a, b \in PartyIds :
       callers' = [callers EXCEPT
                     ![c] = [pc |-> "static", tribe_id |-> a,
                             target_id |-> b, now |-> now, reason |-> ""]]
  /\ CheckFrame

\* IsWarAllowed: the checks that read no war (no tribe, self, allied).
CheckStatic(c) ==
  /\ callers[c].pc = "static"
  /\ \E allied \in AllianceAnswers :
       IF CanonicalTribeId(callers[c].tribe_id) = 0
          \/ CanonicalTribeId(callers[c].target_id) = 0
       THEN Return(c, "no_tribe")
       ELSE IF CanonicalTribeId(callers[c].tribe_id)
               = CanonicalTribeId(callers[c].target_id)
       THEN Return(c, "self")
       ELSE IF server_ready /\ allied THEN Return(c, "allied")
       ELSE Goto(c, "busy_a")
  /\ CheckFrame

\* IsWarAllowed: GetWarForTribeCopy(tribe_a), one critical section.
CheckBusyA(c) ==
  /\ callers[c].pc = "busy_a"
  /\ IF GetWarForTribeCopy(wars_by_id, tribe_to_war_id, callers[c].tribe_id,
                           now) # 0
     THEN Return(c, "busy")
     ELSE Goto(c, "busy_b")
  /\ CheckFrame

\* IsWarAllowed: GetWarForTribeCopy(tribe_b), one critical section.
CheckBusyB(c) ==
  /\ callers[c].pc = "busy_b"
  /\ IF GetWarForTribeCopy(wars_by_id, tribe_to_war_id, callers[c].target_id,
                           now) # 0
     THEN Return(c, "busy")
     ELSE Goto(c, "online")
  /\ CheckFrame

\* IsWarAllowed: IsTribeLeaderOrAdminOnline(tribe_b).
CheckOnline(c) ==
  /\ callers[c].pc = "online"
  /\ \E member_online \in RosterAnswers :
       IF ~IsTribeLeaderOrAdminOnline(CanonicalTribeId(callers[c].target_id),
                                      server_ready, member_online)
       THEN Return(c, "offline")
       ELSE Goto(c, "cooldown_a")
  /\ CheckFrame

\* IsWarAllowed: IsTribeInCooldown(tribe_a, now), one critical section.
CheckCooldownA(c) ==
  /\ callers[c].pc = "cooldown_a"
  /\ IF IsTribeInCooldown(wars_by_id, tribe_to_war_id, callers[c].tribe_id,
                          callers[c].now)
     THEN Return(c, "cooldown")
     ELSE Goto(c, "cooldown_b")
  /\ CheckFrame

\* IsWarAllowed: IsTribeInCooldown(tribe_b, now), one critical section.
CheckCooldownB(c) ==
  /\ callers[c].pc = "cooldown_b"
  /\ IF IsTribeInCooldown(wars_by_id, tribe_to_war_id, callers[c].target_id,
                          callers[c].now)
     THEN Return(c, "cooldown")
     ELSE Goto(c, "declare")
  /\ CheckFrame

\* DeclareWar: the locked insert, need_save, the two NotifySide.
RunDeclareWar(c) ==
  /\ callers[c].pc = "declare"
  /\ next_war_id <= MaxWarId
  /\ DeclareWar(callers[c].tribe_id, callers[c].target_id)
  /\ Return(c, "ok")
  /\ UNCHANGED <<now, config, auto_timers_enabled, server_ready,
                 pending_notifications, last_save, disk, cancel_callers,
                 started_emitted, cooldown_emitted, save_times, probe,
                 threads, handed, abandoned_tribe_until>>

NextConc ==
  \/ \E c \in Callers : BeginDeclare(c)
  \/ \E c \in Callers : CheckStatic(c)
  \/ \E c \in Callers : CheckBusyA(c)
  \/ \E c \in Callers : CheckBusyB(c)
  \/ \E c \in Callers : CheckOnline(c)
  \/ \E c \in Callers : CheckCooldownA(c)
  \/ \E c \in Callers : CheckCooldownB(c)
  \/ \E c \in Callers : RunDeclareWar(c)
  \/ AdvanceClock

\* Two threads, each running one declare command, on a ready server without
\* self-test.
InitConc == Init /\ server_ready /\ ~config.self_test

SpecConc == InitConc /\ [][NextConc]_vars

\* No declare command has been entered step by step.
NoCallRunning == \A c \in Callers : callers[c].pc = "idle"

\* The thread whose declare command is followed step by step.
SteppedCallers == {1}

\* The operations run one after the other, then a declare command runs
\* step by step while the clock moves.
NextSkew ==
  \/ \E c \in SteppedCallers : BeginDeclare(c)
  \/ \E c \in SteppedCallers : CheckStatic(c)
  \/ \E c \in SteppedCallers : CheckBusyA(c)
  \/ \E c \in SteppedCallers : CheckBusyB(c)
  \/ \E c \in SteppedCallers : CheckOnline(c)
  \/ \E c \in SteppedCallers : CheckCooldownA(c)
  \/ \E c \in SteppedCallers : CheckCooldownB(c)
  \/ \E c \in SteppedCallers : RunDeclareWar(c)
  \/ NoCallRunning /\ DeclareCmd
  \/ NoCallRunning /\ RequestCancelCmd
  \/ NoCallRunning /\ AcceptCancelCmd
  \/ NoCallRunning /\ Tick
  \/ AdvanceClock

\* A ready server without self-test and without war delay.
InitSkew == InitConc /\ config.war_delay_seconds = 0

\* The clock can pass a second between the steps of a declare command.
SpecSkew == InitSkew /\ [][NextSkew]_vars

\* The records GetPhase is called with: the fields it reads range over 0
\* (unset) and the seconds of the run, the others are those of a war
\* between 10 and 20.
ProbeRecords ==
  {[NewWarRecord EXCEPT !.war_id = id, !.tribe_a = 10, !.tribe_b = 20,
                        !.declared_at = StartTime, !.start_at = s,
                        !.ended_at = e, !.cooldown_end_a = ca,
                        !.cooldown_end_b = cb] :
     id \in 0..1, s \in StartTime..MaxTime, e \in {0} \cup (StartTime..MaxTime),
     ca \in {0} \cup (StartTime..MaxTime), cb \in {0} \cup (StartTime..MaxTime)}

\* The engine after InitPlugin; no caller has chosen a record yet.
InitPhase ==
  /\ Init
  /\ config.war_delay_seconds = MaxWarDelay
  /\ server_ready

\* The caller's record and time are chosen.
ChooseProbe ==
  /\ probe = << >>
  /\ \E war \in ProbeRecords, t \in StartTime..MaxTime :
       probe' = [war |-> war, t |-> t, results |-> << >>]
  /\ UNCHANGED <<now, config, wars_by_id, tribe_to_war_id, next_war_id,
                 need_save, auto_timers_enabled, server_ready,
                 pending_notifications, last_save, disk, cancel_callers,
                 started_emitted, cooldown_emitted, save_times, last, callers, assigned,
                 threads, handed, abandoned_tribe_until>>

\* GetPhase(war, now): const reference and value parameters, a value returned.
CallGetPhase ==
  /\ probe # << >>
  /\ Len(probe.results) < 2
  /\ probe' = [probe EXCEPT
                 !.results = Append(@, GetPhase(probe.war, probe.t))]
  /\ UNCHANGED <<now, config, wars_by_id, tribe_to_war_id, next_war_id,
                 need_save, auto_timers_enabled, server_ready,
                 pending_notifications, last_save, disk, cancel_callers,
                 started_emitted, cooldown_emitted, save_times, last, callers, assigned,
                 threads, handed, abandoned_tribe_until>>

NextPhase == ChooseProbe \/ CallGetPhase

\* Calls of GetPhase on every record and time of the bounded sets.
SpecPhase == InitPhase /\ [][NextPhase]_vars

\* GetStatusText(war, tribe_id) for the caller's record: held says whether
\* the pointer is a record or nullptr, tribe_id is the side the caller is
\* on.
CallGetStatusText ==
  /\ probe # << >>
  /\ probe.results = << >>
  /\ \E held \in BOOLEAN, tribe_id \in {probe.war.tribe_a, probe.war.tribe_b} :
       probe' = [probe EXCEPT
                   !.results =
                     <<[held |-> held, tribe_id |-> tribe_id,
                        status |-> GetStatusText([id \in {1} |-> probe.war],
                                                 IF held THEN 1 ELSE 0,
                                                 tribe_id, probe.t)]>>]
  /\ UNCHANGED <<now, config, wars_by_id, tribe_to_war_id, next_war_id,
                 need_save, auto_timers_enabled, server_ready,
                 pending_notifications, last_save, disk, cancel_callers,
                 started_emitted, cooldown_emitted, save_times, last, callers,
                 assigned, threads, handed, abandoned_tribe_until>>

NextStatus == ChooseProbe \/ CallGetStatusText

\* Calls of GetStatusText on every record, side and time of the bounded sets.
SpecStatus == InitPhase /\ [][NextStatus]_vars

\* ================================================================ claims
Sides(war) == {war.tribe_a, war.tribe_b}

\* The records of party p whose phase at time t is not None.
LiveAt(p, t) ==
  {id \in DOMAIN wars_by_id :
     p \in Sides(wars_by_id[id]) /\ GetPhase(wars_by_id[id], t) # "None"}

\* The last time at which a timestamp of the model can lie.
Horizon == MaxTime + MaxWarDelay + MaxCooldown + MaxSelfTestActive

\* C1 (amended): after any sequence of complete declare, requestCancel,
\* acceptCancel and tick operations under a non-decreasing clock, every
\* party has, at the current time and at every later time, at most one
\* record whose phase is not None.
MutualExclusivity ==
  \A p \in Tribes : \A t \in now..Horizon : Cardinality(LiveAt(p, t)) <= 1

\* C1 as stated: the same for every time t, the times before the current
\* one included.
MutualExclusivityAtEveryTime ==
  \A p \in Tribes : \A t \in StartTime..Horizon :
    Cardinality(LiveAt(p, t)) <= 1

\* C1 witness: an expired record that no tick has removed yet and a new war
\* of the same party are in the table together.
ExpiredAndNewWarCoexist ==
  \E p \in Tribes :
    /\ Cardinality({id \in DOMAIN wars_by_id : p \in Sides(wars_by_id[id])}) = 2
    /\ Cardinality(LiveAt(p, now)) = 1

\* C3: with self-test off, ended_at of a record goes from 0 to non-zero only
\* in an AcceptCancelWar step, and only when both belligerents have called
\* RequestCancelWar or AcceptCancelWar for this war.
EndedOnlyByMutualAgreement ==
  [][~config.self_test =>
       \A id \in DOMAIN wars_by_id :
         (/\ wars_by_id[id].ended_at = 0
          /\ id \in DOMAIN wars_by_id'
          /\ wars_by_id'[id].ended_at # 0)
         => /\ \E p \in Sides(wars_by_id[id]) : AcceptCancelWar(p)
            /\ <<id, wars_by_id[id].tribe_a>> \in cancel_callers'
            /\ <<id, wars_by_id[id].tribe_b>> \in cancel_callers'
            /\ wars_by_id'[id].ended_at = now]_vars

\* C3 witness: self-test is off and a war has been ended by AcceptCancelWar.
WarEndedByAccept ==
  /\ ~config.self_test
  /\ last.notes # << >>
  /\ last.notes[1].message = "war_canceled"
  /\ \E id \in DOMAIN wars_by_id : wars_by_id[id].ended_at = now

\* The war AcceptCancelWar(p) or RequestCancelWar(p) acts on, 0 if none.
OngoingWarOf(p) ==
  LET id == GetWarForTribeLocked(wars_by_id, tribe_to_war_id, p)
  IN IF id # 0 /\ wars_by_id[id].ended_at = 0 THEN id ELSE 0

\* The cancel flag of the side opposing p.
IncomingFlag(war, p) ==
  IF p = war.tribe_a THEN war.cancel_requested_by_b
  ELSE war.cancel_requested_by_a

\* C4: AcceptCancelWar(p) on an ongoing war whose other side has asked to
\* cancel finalises the record in the same step: ended_at = now, both
\* cooldown ends = now + cooldown_seconds, both cancel flags and
\* cooldown_notified false, every other field as before, need_save set, one
\* "war canceled" notification to each side; with cooldown_seconds > 0 the
\* phase at now is Cooldown.
AcceptFinalizes ==
  [][\A p \in Tribes :
       (/\ OngoingWarOf(p) # 0
        /\ IncomingFlag(wars_by_id[OngoingWarOf(p)], p)
        /\ AcceptCancelWar(p))
       => LET id == OngoingWarOf(p)
              old == wars_by_id[id]
              new == wars_by_id'[id]
          IN /\ new = [old EXCEPT
                         !.ended_at = now,
                         !.cooldown_end_a = now + config.cooldown_seconds,
                         !.cooldown_end_b = now + config.cooldown_seconds,
                         !.cancel_requested_by_a = FALSE,
                         !.cancel_requested_by_b = FALSE,
                         !.cooldown_notified = FALSE]
             /\ need_save'
             /\ Len(last'.notes) = 2
             /\ last'.notes[1] = Note(old.tribe_a, "war_canceled", TRUE)
             /\ last'.notes[2] = Note(old.tribe_b, "war_canceled", TRUE)
             /\ config.cooldown_seconds > 0
                  => GetPhase(new, now) = "Cooldown"]_vars

\* C4 witness: a war that was ended by AcceptCancelWar while a cancel flag
\* was set is in Cooldown.
FinalizedInCooldown ==
  /\ last.notes # << >>
  /\ last.notes[1].message = "war_canceled"
  /\ \E id \in DOMAIN wars_by_id :
       /\ wars_by_id[id].ended_at = now
       /\ wars_by_id[id].start_notified
       /\ GetPhase(wars_by_id[id], now) = "Cooldown"

\* C5: a declare(a, b) that passes IsWarAllowed inserts exactly one record,
\* under the id next_war_id had, with tribe_a = a, tribe_b = b, declared_at =
\* now, start_at = now + war_delay_seconds, ended_at and both cooldown ends 0
\* and the four flags false; it leaves the other records as they were, sets
\* need_save and sends one notification to a and one to b; with
\* war_delay_seconds > 0 the phase at now is Pending.
DeclareInserts ==
  last.reason = "ok" =>
    LET before == last.before
        id == before.next_war_id
        a == last.args[1]
        b == last.args[2]
    IN /\ id \notin DOMAIN before.wars_by_id
       /\ DOMAIN wars_by_id = DOMAIN before.wars_by_id \cup {id}
       /\ \A old \in DOMAIN before.wars_by_id :
            wars_by_id[old] = before.wars_by_id[old]
       /\ wars_by_id[id] =
            [war_id |-> id, tribe_a |-> a, tribe_b |-> b,
             declared_at |-> now,
             start_at |-> now + config.war_delay_seconds,
             ended_at |-> 0, cooldown_end_a |-> 0, cooldown_end_b |-> 0,
             cancel_requested_by_a |-> FALSE,
             cancel_requested_by_b |-> FALSE,
             start_notified |-> FALSE, cooldown_notified |-> FALSE]
       /\ next_war_id = id + 1
       /\ need_save
       /\ Len(last.notes) = 2
       /\ last.notes[1].side_tribe_id = a
       /\ last.notes[2].side_tribe_id = b
       /\ config.war_delay_seconds > 0
            => GetPhase(wars_by_id[id], now) = "Pending"

\* C5 witness: a declare has just inserted a record that is Pending.
DeclaredPending ==
  /\ last.reason = "ok"
  /\ \E id \in DOMAIN wars_by_id :
       /\ wars_by_id[id].declared_at = now
       /\ GetPhase(wars_by_id[id], now) = "Pending"

\* The reasons a failing declare returns.
Reasons == {"no_tribe", "self", "allied", "busy", "offline", "cooldown"}

\* C6: a declare that fails validation returns a reason and leaves the
\* store, the index, next_war_id and need_save as it found them; and right
\* after a successful declare(a, b), declare(a, c) and declare(c, a) with a
\* third party c answer busy whatever the roster says, so that the store
\* keeps its records.
FailedDeclareChangesNothing ==
  /\ last.before # << >> => last.reason \in Reasons \cup {"ok"}
  /\ last.reason \in Reasons =>
       /\ last.notes = << >>
       /\ wars_by_id = last.before.wars_by_id
       /\ tribe_to_war_id = last.before.tribe_to_war_id
       /\ next_war_id = last.before.next_war_id
       /\ need_save = last.before.need_save
  /\ last.reason = "ok" =>
       \A c \in Tribes \ Sides(wars_by_id[next_war_id - 1]) :
       \A member_online \in RosterAnswers :
         LET a == wars_by_id[next_war_id - 1].tribe_a
         IN /\ IsWarAllowed(wars_by_id, tribe_to_war_id, a, c, now,
                            server_ready, FALSE, member_online) = "busy"
            /\ IsWarAllowed(wars_by_id, tribe_to_war_id, c, a, now,
                            server_ready, FALSE, member_online) = "busy"

\* C6 witness: a declare has been refused as busy and the store holds the
\* one record of the war declared before it.
BusyDeclareRefused ==
  /\ last.reason = "busy"
  /\ Cardinality(DOMAIN wars_by_id) = 1
  /\ \A id \in DOMAIN wars_by_id : wars_by_id[id].declared_at = now

\* Party p is in Cooldown at t: a record of p has phase Cooldown and the
\* cooldown end of p's own side has not passed.
InCooldown(p, t) ==
  \E id \in DOMAIN wars_by_id :
    LET war == wars_by_id[id]
    IN /\ p \in Sides(war)
       /\ GetPhase(war, t) = "Cooldown"
       /\ t < (IF p = war.tribe_a THEN war.cooldown_end_a
               ELSE war.cooldown_end_b)

\* C7: IsWarAllowed(a, b, now) succeeds if and only if a and b are non-zero
\* and distinct, they are not allied (asked only when the server is ready),
\* neither has a record whose phase at now is not None, b has a member
\* online, and neither is in Cooldown.
IsWarAllowedIff ==
  \A a, b \in PartyIds, allied \in AllianceAnswers,
     member_online \in RosterAnswers :
    IsWarAllowed(wars_by_id, tribe_to_war_id, a, b, now, server_ready,
                 allied, member_online) = "ok"
    <=> ~ \/ a = 0 \/ b = 0
          \/ a = b
          \/ server_ready /\ allied
          \/ LiveAt(a, now) # {} \/ LiveAt(b, now) # {}
          \/ ~member_online
          \/ InCooldown(a, now) \/ InCooldown(b, now)

\* C7 witness: the target's expired record is still in the table, the
\* requester is free, the server is ready, and a declare was allowed.
AllowedBesideExpiredRecord ==
  /\ server_ready
  /\ last.reason = "ok"
  /\ \E id \in DOMAIN wars_by_id :
       /\ GetPhase(wars_by_id[id], now) = "None"
       /\ wars_by_id[next_war_id - 1].tribe_b \in Sides(wars_by_id[id])
\* The phase of a record at a time as the specification defines it.
PhaseReference(war, t) ==
  IF war.war_id = 0 THEN "None"
  ELSE IF war.ended_at = 0 /\ t < war.start_at THEN "Pending"
  ELSE IF war.ended_at = 0 /\ t >= war.start_at THEN "Active"
  ELSE IF t < war.cooldown_end_a \/ t < war.cooldown_end_b THEN "Cooldown"
  ELSE IF war.cooldown_end_a <= t /\ war.cooldown_end_b <= t THEN "None"
  ELSE "undefined"

\* C9: every call of GetPhase returns the phase of the reference definition
\* for its record and time, a second call with the same inputs returns the
\* same phase, and a call changes neither its record nor the engine's state.
GetPhaseIsReference ==
  /\ [](probe # << >> =>
          \A i \in DOMAIN probe.results :
            probe.results[i] = PhaseReference(probe.war, probe.t))
  /\ [][CallGetPhase =>
          /\ probe'.war = probe.war
          /\ probe'.t = probe.t
          /\ UNCHANGED <<wars_by_id, tribe_to_war_id, next_war_id, need_save,
                         pending_notifications, disk>>]_vars

\* C9 witness: GetPhase was called twice on a record that ended, whose
\* cooldown of side a has passed while that of side b has not.
PhaseAskedTwiceInCooldown ==
  /\ probe # << >>
  /\ Len(probe.results) = 2
  /\ probe.war.ended_at # 0
  /\ probe.war.cooldown_end_a <= probe.t
  /\ probe.t < probe.war.cooldown_end_b
  /\ probe.results[2] = "Cooldown"

\* How often "war started" was emitted to party p for war id.
StartedCount(counts, id, p) == Count(counts, <<id, p>>)

\* C10 (amended): "war started" is never emitted more than once to a party
\* of a war, whatever the ticks and their faults; and every tick that runs
\* to its end with the timers enabled on a war that is ongoing, has reached
\* its start time and is not flagged yet, emits one to tribe_a and one to
\* tribe_b and sets start_notified.
StartedOncePerOngoingWar ==
  /\ [](\A k \in DOMAIN started_emitted : started_emitted[k] <= 1)
  /\ [][\A id \in DOMAIN wars_by_id :
          (/\ auto_timers_enabled
           /\ wars_by_id[id].ended_at = 0
           /\ now >= wars_by_id[id].start_at
           /\ ~wars_by_id[id].start_notified
           /\ Tick)
          => /\ StartedCount(started_emitted', id, wars_by_id[id].tribe_a) = 1
             /\ StartedCount(started_emitted', id, wars_by_id[id].tribe_b) = 1
             /\ id \in DOMAIN wars_by_id'
             /\ wars_by_id'[id].start_notified
             /\ \E i, j \in DOMAIN last'.notes :
                  /\ i # j
                  /\ last'.notes[i] =
                       Note(wars_by_id[id].tribe_a, "war_started", TRUE)
                  /\ last'.notes[j] =
                       Note(wars_by_id[id].tribe_b, "war_started", TRUE)]_vars

\* C10 as stated: for every war in the store that was ongoing when its
\* start time was reached and has had no "war started" yet, a tick that
\* runs to its end with now >= start_at and the timers enabled emits one to
\* tribe_a and one to tribe_b.
StartedOnceForEveryWarOngoingAtStart ==
  [][\A id \in DOMAIN wars_by_id :
       (/\ auto_timers_enabled
        /\ now >= wars_by_id[id].start_at
        /\ \/ wars_by_id[id].ended_at = 0
           \/ wars_by_id[id].ended_at >= wars_by_id[id].start_at
        /\ StartedCount(started_emitted, id, wars_by_id[id].tribe_a) = 0
        /\ Tick)
       => /\ StartedCount(started_emitted', id, wars_by_id[id].tribe_a) = 1
          /\ StartedCount(started_emitted', id, wars_by_id[id].tribe_b) = 1]_vars

\* C10 witness: "war started" went once to each party of a war, the flag is
\* set and a later second has come.
StartedEmittedAndTimePassed ==
  \E id \in DOMAIN wars_by_id :
    /\ StartedCount(started_emitted, id, wars_by_id[id].tribe_a) = 1
    /\ StartedCount(started_emitted, id, wars_by_id[id].tribe_b) = 1
    /\ wars_by_id[id].start_notified
    /\ wars_by_id[id].ended_at = 0
    /\ now > wars_by_id[id].start_at
    /\ last.notes = << >>
    /\ last.delivered = << >>
    /\ last.reason = ""

\* The parties of the command of thread c.
CallSides(c) ==
  {CanonicalTribeId(callers[c].tribe_id),
   CanonicalTribeId(callers[c].target_id)}

\* A step that a timer callback can have made, by the history it leaves.
TimerStep ==
  /\ last'.op \in {"tick", "tick_again"}
  /\ server_ready' = server_ready

\* C11: a timer callback that follows another one at the same second with no
\* command in between generates no notification, changes no record, removes
\* nothing, leaves the index as it is and does not set the dirty flag.
TickIsIdempotent ==
  [][(last.op \in {"tick", "tick_again"} /\ Tick)
       => /\ last'.notes = << >>
          /\ wars_by_id' = wars_by_id
          /\ tribe_to_war_id' = tribe_to_war_id
          /\ need_save' = FALSE /\ ~need_save
          /\ started_emitted' = started_emitted
          /\ disk' = disk]_vars

\* C11 witness: two timer callbacks ran in a row in the second at which a war
\* started; the war is flagged and each party got "war started" once.
TickedTwiceAtStart ==
  /\ last.op = "tick_again"
  /\ \E id \in DOMAIN wars_by_id :
       /\ wars_by_id[id].start_notified
       /\ wars_by_id[id].start_at = now
       /\ wars_by_id[id].declared_at < now
       /\ StartedCount(started_emitted, id, wars_by_id[id].tribe_a) = 1
       /\ StartedCount(started_emitted, id, wars_by_id[id].tribe_b) = 1

\* C12: "cooldown ended" is never emitted more than once to a party of a
\* war and never before the war has ended and both cooldown ends have
\* passed; the first timer callback that runs with the timers enabled on an
\* ended war at now >= cooldown_end_a and now >= cooldown_end_b emits one to
\* tribe_a and one to tribe_b.
CooldownEndedOnce ==
  /\ [](\A k \in DOMAIN cooldown_emitted : cooldown_emitted[k] <= 1)
  /\ [][\A id \in DOMAIN wars_by_id :
          /\ (\E p \in Tribes :
                Count(cooldown_emitted', <<id, p>>)
                  > Count(cooldown_emitted, <<id, p>>))
             => /\ wars_by_id[id].ended_at # 0
                /\ now >= wars_by_id[id].cooldown_end_a
                /\ now >= wars_by_id[id].cooldown_end_b
          /\ (/\ TimerStep
              /\ auto_timers_enabled
              /\ wars_by_id[id].ended_at # 0
              /\ now >= wars_by_id[id].cooldown_end_a
              /\ now >= wars_by_id[id].cooldown_end_b
              /\ Count(cooldown_emitted, <<id, wars_by_id[id].tribe_a>>) = 0
              /\ Tick)
             => /\ Count(cooldown_emitted',
                         <<id, wars_by_id[id].tribe_a>>) = 1
                /\ Count(cooldown_emitted',
                         <<id, wars_by_id[id].tribe_b>>) = 1
                /\ \E i, j \in DOMAIN last'.notes :
                     /\ i # j
                     /\ last'.notes[i] =
                          Note(wars_by_id[id].tribe_a, "cooldown_ended", FALSE)
                     /\ last'.notes[j] =
                          Note(wars_by_id[id].tribe_b, "cooldown_ended", FALSE)]_vars

\* C12 witness: a timer callback has just emitted "cooldown ended" once to
\* each party of a war whose cooldown had passed.
CooldownEndedEmitted ==
  \E id \in DOMAIN cooldown_emitted, p, q \in Tribes :
    /\ p # q
    /\ id = <<id[1], p>>
    /\ cooldown_emitted[id] = 1
    /\ Count(cooldown_emitted, <<id[1], q>>) = 1
    /\ last.op = "tick"
    /\ \E i, j \in DOMAIN last.notes :
         /\ last.notes[i] = Note(p, "cooldown_ended", FALSE)
         /\ last.notes[j] = Note(q, "cooldown_ended", FALSE)

\* The parties that have a record with a non-None phase at t in wars.
Engaged(wars, t) ==
  {p \in Tribes : \E id \in DOMAIN wars :
     p \in {wars[id].tribe_a, wars[id].tribe_b}
     /\ GetPhase(wars[id], t) # "None"}

\* The records a timer callback has to remove: phase None through the
\* cooldown path.
Expired(wars, t) ==
  {id \in DOMAIN wars : /\ wars[id].ended_at # 0
                        /\ wars[id].cooldown_end_a <= t
                        /\ wars[id].cooldown_end_b <= t}

\* C13 (amended): a timer callback that runs with the timers enabled removes
\* exactly the records that have ended and whose two cooldown ends are
\* <= now; no timer callback removes a record that is Pending, Active or in
\* Cooldown; after a removal the index maps exactly the parties of the
\* remaining records with a non-None phase, each to its record; and a status
\* query for a party of a removed record reports no war when the party is
\* in no other record with a non-None phase and stands in no alliance,
\* and never reports the removed record.
CleanupRemovesExpired ==
  [][/\ (TimerStep /\ auto_timers_enabled /\ Tick)
        => /\ DOMAIN wars_by_id' = DOMAIN wars_by_id \ Expired(wars_by_id, now)
           /\ Expired(wars_by_id, now) # {}
              => /\ DOMAIN tribe_to_war_id' = Engaged(wars_by_id', now)
                 /\ \A p \in DOMAIN tribe_to_war_id' :
                      /\ tribe_to_war_id'[p] \in DOMAIN wars_by_id'
                      /\ p \in Sides(wars_by_id'[tribe_to_war_id'[p]])
                      /\ GetPhase(wars_by_id'[tribe_to_war_id'[p]], now)
                           # "None"
                 /\ \A id \in Expired(wars_by_id, now) :
                      \A p \in Sides(wars_by_id[id]) :
                        \A ord \in Orders(DOMAIN wars_by_id'),
                           allies \in Alliances, game_mode \in BOOLEAN :
                          /\ GetWarForSideCopy(wars_by_id', tribe_to_war_id',
                                               p, now, ord, allies,
                                               game_mode).war_id # id
                          /\ (p \notin Engaged(wars_by_id', now)
                              /\ allies = {})
                             => CmdWarStatus(wars_by_id', tribe_to_war_id',
                                             p, now, ord, allies,
                                             game_mode).text = "no_war"
     /\ (TimerStep /\ (Tick \/ TickFault))
        => \A id \in DOMAIN wars_by_id :
             GetPhase(wars_by_id[id], now) # "None"
               => id \in DOMAIN wars_by_id']_vars

\* C13 as stated: after a timer callback has removed a record, a status
\* query for either of its parties reports no war.
NoWarAfterCleanup ==
  [][(TimerStep /\ auto_timers_enabled /\ Tick)
       => \A id \in Expired(wars_by_id, now) :
            \A p \in Sides(wars_by_id[id]) :
              \A ord \in Orders(DOMAIN wars_by_id'),
                 allies \in Alliances, game_mode \in BOOLEAN :
                CmdWarStatus(wars_by_id', tribe_to_war_id', p, now, ord,
                             allies, game_mode).text = "no_war"]_vars

\* C13 witness: a timer callback has just emitted "cooldown ended" for a
\* record and removed it, and another record is still in the store.
ExpiredRecordRemoved ==
  /\ last.op = "tick"
  /\ wars_by_id # << >>
  /\ \E k \in DOMAIN cooldown_emitted :
       /\ k[1] \notin DOMAIN wars_by_id
       /\ \E i \in DOMAIN last.notes :
            last.notes[i] = Note(k[2], "cooldown_ended", FALSE)
       /\ k[2] \notin DOMAIN tribe_to_war_id

\* A structure of party target_tribe that is not excluded, hit by a member
\* of attacker_tribe, with no entry in abandoned_tribe_until.
Hit(target_tribe, attacker_tribe) ==
  [structure |-> TRUE, excluded |-> FALSE, target_tribe |-> target_tribe,
   attacker_tribe |-> attacker_tribe, until |-> 0]

\* The server is Ready, the game mode is there and the abandoned-structure
\* window is disabled.
Arena(allies) ==
  [ready |-> TRUE, game_mode |-> TRUE, allies |-> allies, window |-> FALSE]

\* attacker is on one side of war and defender on the other.
OnOpposingSides(war, allies, attacker, defender) ==
  \E side \in {<<war.tribe_a, war.tribe_b>>, <<war.tribe_b, war.tribe_a>>} :
    /\ attacker = side[1] \/ {attacker, side[1]} \in allies
    /\ defender = side[2] \/ {defender, side[2]} \in allies

OngoingOf(p) ==
  {id \in DOMAIN wars_by_id :
     p \in Sides(wars_by_id[id]) /\ wars_by_id[id].ended_at = 0}

\* The record with the cancel flag of party p set and nothing else changed.
OwnFlagSet(war, p) ==
  [war EXCEPT !.cancel_requested_by_a = @ \/ p = war.tribe_a,
              !.cancel_requested_by_b = @ \/ p = war.tribe_b]

\* C15: RequestCancelWar(p) changes no record, does not set the dirty flag
\* and sends nothing when p has no record that has not ended; otherwise it
\* sets p's own cancel flag in that record and nothing else in the store,
\* sets the dirty flag and notifies both sides; a call that finds the flag
\* set leaves the store as it is and sends the two notifications again.
RequestCancelIdempotent ==
  [][\A p \in PartyIds :
       RequestCancelWar(p)
       => /\ OngoingOf(p) = {}
             => /\ wars_by_id' = wars_by_id
                /\ need_save' = need_save
                /\ last'.notes = << >>
                /\ pending_notifications' = pending_notifications
          /\ \A id \in OngoingOf(p) :
               /\ wars_by_id' =
                    [wars_by_id EXCEPT ![id] = OwnFlagSet(@, p)]
               /\ OwnFlagSet(wars_by_id'[id], p) = wars_by_id'[id]
               /\ need_save'
               /\ last'.notes =
                    <<Note(OtherSide(wars_by_id[id], p),
                           "cancel_requested", FALSE),
                      Note(p, "cancel_request_sent", FALSE)>>
          /\ tribe_to_war_id' = tribe_to_war_id
          /\ next_war_id' = next_war_id]_vars

\* C15 witness: a party has asked to cancel a second time; its flag is set,
\* the flag of the other side is not, and the war goes on.
CancelRequestedAgain ==
  /\ last.op = "cancel_again"
  /\ \E id \in DOMAIN wars_by_id :
       /\ wars_by_id[id].ended_at = 0
       /\ wars_by_id[id].cancel_requested_by_a
       /\ ~wars_by_id[id].cancel_requested_by_b
       /\ last.notes[2] = Note(wars_by_id[id].tribe_a,
                               "cancel_request_sent", FALSE)

\* C16: a timer callback whose ProcessTimers throws clears
\* auto_timers_enabled; once cleared it stays cleared; and every timer
\* callback that runs with it cleared changes no record and no index entry,
\* gets no notification from ProcessTimers and does not set the dirty flag.
FailClosedTicking ==
  /\ [][~auto_timers_enabled => ~auto_timers_enabled']_vars
  /\ [][(TimerStep /\ TickFault) => ~auto_timers_enabled']_vars
  /\ [][(TimerStep /\ ~auto_timers_enabled /\ (Tick \/ TickFault))
          => /\ wars_by_id' = wars_by_id
             /\ tribe_to_war_id' = tribe_to_war_id
             /\ last'.notes = << >>
             /\ ~need_save'
             /\ started_emitted' = started_emitted
             /\ cooldown_emitted' = cooldown_emitted]_vars

\* C16 witness: the timers are disabled, a timer callback has run after the
\* one that threw, and a war that has reached its start time is still
\* without its "war started".
TickedWhileDisabled ==
  /\ ~auto_timers_enabled
  /\ last.op = "tick_again"
  /\ last.notes = << >>
  /\ \E id \in DOMAIN wars_by_id :
       /\ wars_by_id[id].ended_at = 0
       /\ now >= wars_by_id[id].start_at
       /\ ~wars_by_id[id].start_notified

\* C17: a load that follows a save, at the same or a later time, yields a
\* store that holds, with the same id and the same field values, every
\* record of the saved store that is not expired, the records in Cooldown
\* that were declared long before they were ended included.  (Read for the
\* records that are not expired when the load runs.)
RoundTripKeepsLiveRecords ==
  [][(Restart /\ disk'.state = "written") =>
       \A w \in disk'.wars :
         GetPhase(w, now) # "None" =>
           /\ w.war_id \in DOMAIN wars_by_id'
           /\ wars_by_id'[w.war_id] = w]_vars

\* C18: after a load the store holds no record with war_id <= 0, no record
\* with a zero party and no ended record whose phase is None at load time,
\* whatever the file held (ended records with a cooldown end of 0
\* included), and the index is the one rebuilt from the loaded records.
LoadFiltersRecords ==
  [][(Restart /\ disk'.state = "written") =>
       /\ \A id \in DOMAIN wars_by_id' :
            /\ wars_by_id'[id].war_id > 0
            /\ wars_by_id'[id].tribe_a # 0
            /\ wars_by_id'[id].tribe_b # 0
            /\ ~(/\ wars_by_id'[id].ended_at # 0
                 /\ GetPhase(wars_by_id'[id], now) = "None")
       /\ \E ord \in Orders(DOMAIN wars_by_id') :
            tribe_to_war_id' = RebuildTribeIndexLocked(wars_by_id', now, ord)]_vars

\* C19: a load whose file is missing, cannot be read or does not parse ends
\* normally and leaves the store of a fresh process: no record, an empty
\* index, next_war_id 1, timers enabled, nothing queued; the plugin can be
\* loaded on every such file.
LoadFailureLeavesFreshStore ==
  /\ [][(disk'.state # "written" /\ Restart) =>
          /\ wars_by_id' = << >>
          /\ tribe_to_war_id' = << >>
          /\ next_war_id' = 1
          /\ auto_timers_enabled'
          /\ pending_notifications' = << >>
          /\ last_save' = 0
          /\ need_save' = (disk'.state = "missing")]_vars
  /\ [](disk.state # "written" => ENABLED RestartPlugin(FALSE, FALSE))

\* A war declared on the store a failed load left.
DeclaredAfterFailedLoad ==
  /\ disk.state \in {"unparsable", "ill_typed"}
  /\ last.reason = "ok"
  /\ DOMAIN wars_by_id = {1}
  /\ wars_by_id[1].declared_at >= LateTime
  /\ next_war_id = 2

\* C20: FlushSaveIfNeeded writes only when the dirty flag is set and at
\* least MinSaveInterval seconds have passed since its last write: any two
\* of its writes are at least MinSaveInterval seconds apart, and a callback
\* that finds the store clean writes nothing.
SaveDebounce ==
  /\ [](\A i, j \in DOMAIN save_times :
          i < j => save_times[j] - save_times[i] >= MinSaveInterval)
  /\ [][save_times' # save_times =>
          /\ need_save \/ wars_by_id' # wars_by_id
          /\ now - last_save >= MinSaveInterval
          /\ last_save' = now
          /\ save_times' = Append(save_times, now)]_vars
  /\ [][(~need_save /\ wars_by_id' = wars_by_id) =>
          disk' = disk /\ save_times' = save_times]_vars

\* The callback has written twice, the second time as soon as the interval
\* allowed.
SavedTwice ==
  /\ Len(save_times) >= 2
  /\ save_times[Len(save_times)]
       = save_times[Len(save_times) - 1] + MinSaveInterval
  /\ disk = SaveData(next_war_id, wars_by_id)

\* C21: a timer callback that finds the store dirty and does not write it,
\* because the interval has not passed or SaveData could not open the file,
\* leaves the store dirty, so that a later callback writes the change.
DirtySurvivesSkippedFlush ==
  [][(TimerStep /\ need_save /\ save_times' = save_times) => need_save']_vars

\* C22: every operation that changes the table or a field of a record sets
\* the dirty flag before it returns: after a command that changed the store
\* need_save is set, and a timer callback that changed the store goes on to
\* SaveData when the save interval has passed.
MutationsMarkDirty ==
  /\ [][(wars_by_id' # wars_by_id /\ ~TimerStep) => need_save']_vars
  /\ [][(TimerStep /\ wars_by_id' # wars_by_id
         /\ now - last_save >= MinSaveInterval) => last_save' = now]_vars

\* The notifications a flush has swapped out and not yet handed out.
InHand ==
  UNION {{threads[t].local[i] : i \in DOMAIN threads[t].local} :
           t \in {u \in Threads : threads[u].pc = "deliver"}}

\* C23: every notification that entered the queue is handed to the
\* messaging call by exactly one flush or is still waiting, is never handed
\* out twice, the notifications of one flush are handed out in the order in
\* which they entered, and an enqueue that runs while a flush delivers adds
\* to the queue only, not to what that flush hands out.
QueueDeliversOnce ==
  /\ [](/\ {handed[i].note : i \in DOMAIN handed} \cup InHand
           \cup {pending_notifications[i] : i \in DOMAIN pending_notifications}
           = {QueuedNote(k) : k \in 1..Entered}
        /\ \A i, j \in DOMAIN handed :
             /\ i # j => handed[i].note # handed[j].note
             /\ (i < j /\ handed[i].flush = handed[j].flush) =>
                  handed[i].note.side_tribe_id < handed[j].note.side_tribe_id
             /\ handed[i].note.side_tribe_id <= handed[i].flush)
  /\ [][Len(pending_notifications') > Len(pending_notifications) =>
          /\ handed' = handed
          /\ \A t \in Threads :
               threads[t].pc = "deliver" => threads'[t] = threads[t]]_vars

\* Two flushes have handed out their notifications in turns, and a
\* notification that entered while the first was delivering went out with
\* the second; nothing is left.
TwoFlushesInterleaved ==
  /\ Len(handed) = MaxNotes
  /\ pending_notifications = << >>
  /\ \A t \in Threads : threads[t].op = "idle"
  /\ \E i, j, k \in DOMAIN handed :
       /\ i < j /\ j < k
       /\ handed[i].flush = handed[k].flush
       /\ handed[j].flush > handed[i].flush

\* C24: in every operation the alliance, roster and messaging calls and the
\* file writes happen only where the store lock is not held: no thread that
\* is about to make such a call holds data_mutex.
NoExternalUnderStoreLock ==
  \A t \in Threads :
    (threads[t].pc = "run" /\ threads[t].path[threads[t].at].kind = "call")
      => "data_mutex" \notin threads[t].holds

\* A thread about to take a lock.
AtAcquire(t, lock) ==
  /\ threads[t].pc = "run"
  /\ threads[t].path[threads[t].at] = Acquire(lock)

\* What holds of the locks in every state.
LocksWellUsed ==
  /\ \A t \in Threads :
       /\ \A lock \in threads[t].holds : ~AtAcquire(t, lock)
       /\ Cardinality(threads[t].holds) <= 1
       /\ threads[t].op = "idle" => threads[t].holds = {}
  /\ (\E t \in Runners : threads[t].pc = "run") =>
       \E t \in Runners :
         /\ threads[t].pc = "run"
         /\ \A lock \in {"data_mutex", "notification_mutex"} :
              AtAcquire(t, lock) => CanLock(lock)

\* C25: no operation hangs: no thread takes the store lock while it holds
\* it, the store lock and the notification lock are never held together,
\* every lock taken is released when the function returns, some running
\* thread can always move, and every call that has started returns.
NoOperationHangs ==
  /\ []LocksWellUsed
  /\ \A t \in Runners : (threads[t].pc = "run") ~> (threads[t].op = "idle")

\* Witness for C25: one thread is inside the store lock while another waits
\* for it.
ThreadWaitsForStoreLock ==
  \E t \in Runners, u \in Runners :
    /\ t # u
    /\ "data_mutex" \in threads[t].holds
    /\ AtAcquire(u, "data_mutex")

\* C26: between operations GetWarForTribeCopy(p) returns a record if and
\* only if the table holds a record with p as tribe_a or tribe_b whose phase
\* now is not None, and it returns that record; an index entry that points
\* at a record whose phase is None yields nothing.
LookupFindsTheLiveRecord ==
  \A p \in PartyIds :
    /\ GetWarForTribeCopy(wars_by_id, tribe_to_war_id, p, now) # 0
         <=> LiveAt(CanonicalTribeId(p), now) # {}
    /\ GetWarForTribeCopy(wars_by_id, tribe_to_war_id, p, now) # 0
         => LiveAt(CanonicalTribeId(p), now)
              = {GetWarForTribeCopy(wars_by_id, tribe_to_war_id, p, now)}

\* Witness for C26: the index still points at a record whose phase has become
\* None, and the lookup for its party returns nothing.
StaleIndexEntryYieldsNothing ==
  \E p \in Tribes :
    /\ GetWarForTribeLocked(wars_by_id, tribe_to_war_id, p) # 0
    /\ GetPhase(wars_by_id[GetWarForTribeLocked(wars_by_id, tribe_to_war_id,
                                                p)], now) = "None"
    /\ GetWarForTribeCopy(wars_by_id, tribe_to_war_id, p, now) = 0

IncomingCancelIsExactAndPure ==
  [][(last'.op = "has_incoming_cancel" /\ last' # last)
       => /\ last'.result
               = (\E id \in DOMAIN wars_by_id :
                    /\ CanonicalTribeId(last'.args[1]) \in DOMAIN tribe_to_war_id
                    /\ tribe_to_war_id[CanonicalTribeId(last'.args[1])] = id
                    /\ \/ /\ wars_by_id[id].tribe_a
                               = CanonicalTribeId(last'.args[1])
                          /\ wars_by_id[id].cancel_requested_by_b
                       \/ /\ wars_by_id[id].tribe_b
                               = CanonicalTribeId(last'.args[1])
                          /\ wars_by_id[id].cancel_requested_by_a)
          /\ UNCHANGED <<wars_by_id, tribe_to_war_id, next_war_id,
                         need_save>>]_vars

\* Witness for C28: the query has just answered true for a party whose
\* opponent asked to cancel.
IncomingCancelSeen ==
  /\ last.op = "has_incoming_cancel"
  /\ last.result
  /\ \E id \in DOMAIN wars_by_id :
       wars_by_id[id].cancel_requested_by_a # wars_by_id[id].cancel_requested_by_b

\* The status GetStatusText has returned for the caller's record.
StatusShown == probe.results[1].status

\* The phase of the caller's record, None for nullptr.
PhaseShown ==
  IF probe.results[1].held THEN GetPhase(probe.war, probe.t) ELSE "None"

\* C30: the status follows the phase and the asking side: the time left to
\* start_at when Pending, the fixed text when Active, when Cooldown the time
\* left to the cooldown end of the asking side (not below 0, never that of
\* the other side), and "no war" without a record or when the phase is None.
StatusFollowsPhaseAndSide ==
  (probe # << >> /\ probe.results # << >>) =>
    /\ PhaseShown = "Pending" =>
         StatusShown = [text |-> "pending",
                        remain |-> probe.war.start_at - probe.t]
    /\ PhaseShown = "Active" => StatusShown.text = "active"
    /\ PhaseShown = "Cooldown" =>
         /\ StatusShown.text = "cooldown"
         /\ StatusShown.remain >= 0
         /\ probe.results[1].tribe_id = probe.war.tribe_a =>
              StatusShown.remain = Max(0, probe.war.cooldown_end_a - probe.t)
         /\ probe.results[1].tribe_id = probe.war.tribe_b =>
              StatusShown.remain = Max(0, probe.war.cooldown_end_b - probe.t)
    /\ PhaseShown = "None" => StatusShown.text = "no_war"

\* Witness for C30: a side asks during a cooldown that has run out for it
\* and still runs for the other side.
OwnCooldownShown ==
  /\ probe # << >>
  /\ probe.results # << >>
  /\ PhaseShown = "Cooldown"
  /\ probe.results[1].tribe_id = probe.war.tribe_a
  /\ probe.war.cooldown_end_a <= probe.t
  /\ probe.war.cooldown_end_b > probe.t
  /\ StatusShown.remain = 0

\* C29: with self_test off a timer callback changes neither ended_at nor a
\* cooldown end of any record and removes no record that has not ended; a
\* timer callback ends a war only with self_test on, its start notified and
\* now >= start_at + max(1, self_test_active_seconds), and then sets
\* ended_at = now, both cooldown ends = now + cooldown_seconds and
\* cooldown_notified = false.
ForcedEndOnlyInSelfTest ==
  [][TimerStep =>
       \A id \in DOMAIN wars_by_id :
         /\ (~config.self_test /\ id \in DOMAIN wars_by_id') =>
              /\ wars_by_id'[id].ended_at = wars_by_id[id].ended_at
              /\ wars_by_id'[id].cooldown_end_a = wars_by_id[id].cooldown_end_a
              /\ wars_by_id'[id].cooldown_end_b = wars_by_id[id].cooldown_end_b
         /\ (~config.self_test /\ id \notin DOMAIN wars_by_id') =>
              wars_by_id[id].ended_at # 0
         /\ (/\ wars_by_id[id].ended_at = 0
             /\ id \in DOMAIN wars_by_id'
             /\ wars_by_id'[id].ended_at # 0) =>
              /\ config.self_test
              /\ wars_by_id'[id].start_notified
              /\ now >= wars_by_id[id].start_at
                          + Max(1, config.self_test_active_seconds)
              /\ wars_by_id'[id].ended_at = now
              /\ wars_by_id'[id].cooldown_end_a = now + config.cooldown_seconds
              /\ wars_by_id'[id].cooldown_end_b = now + config.cooldown_seconds
              /\ ~wars_by_id'[id].cooldown_notified]_vars

\* Witness for C29: in self-test a timer callback has just ended a war for
\* which no side asked to cancel.
ForcedEndSeen ==
  /\ config.self_test
  /\ last.op \in {"tick", "tick_again"}
  /\ \E id \in DOMAIN wars_by_id :
       /\ wars_by_id[id].ended_at = now
       /\ wars_by_id[id].start_notified
       /\ wars_by_id[id].cooldown_end_a = now + config.cooldown_seconds
       /\ ~wars_by_id[id].cooldown_notified
       /\ \A p \in Sides(wars_by_id[id]) : <<id, p>> \notin cancel_callers

\* Damage by a member of party a to a structure of party b is allowed.
DamageOpen(a, b) ==
  IsStructureDamageAllowed(wars_by_id, now, Hit(b, a), Arena({})).allowed

\* The records between parties a and b.
WarsBetween(a, b) ==
  {id \in DOMAIN wars_by_id : Sides(wars_by_id[id]) = {a, b}}

IndexAgreesWithTable ==
  /\ \A p \in DOMAIN tribe_to_war_id :
       /\ tribe_to_war_id[p] \in DOMAIN wars_by_id
       /\ p \in Sides(wars_by_id[tribe_to_war_id[p]])
  /\ \A id \in DOMAIN wars_by_id :
       GetPhase(wars_by_id[id], now) # "None"
         => Sides(wars_by_id[id]) \subseteq DOMAIN tribe_to_war_id

\* C32: between operations every index entry p -> id refers to a record of
\* the table that has p as tribe_a or tribe_b, and both parties of every
\* record whose phase now is not None are in the index; an operation that
\* removes a record leaves the index as a full rebuild over the remaining
\* records makes it.
IndexConsistency ==
  /\ []IndexAgreesWithTable
  /\ [][~(DOMAIN wars_by_id \subseteq DOMAIN wars_by_id')
          => \E ord \in Orders(DOMAIN wars_by_id') :
               tribe_to_war_id'
                 = RebuildTribeIndexLocked(wars_by_id', now', ord)]_vars

\* Witness for C32: a timer callback has removed a record and the index
\* holds the parties of a record that remains.
IndexRebuiltAfterRemoval ==
  /\ last.op \in {"tick", "tick_again"}
  /\ assigned \ DOMAIN wars_by_id # {}
  /\ \E id \in DOMAIN wars_by_id :
       \A p \in Sides(wars_by_id[id]) :
         p \in DOMAIN tribe_to_war_id /\ tribe_to_war_id[p] = id

\* A member of party a (0: no tribe) may damage a structure of party p at
\* time t, the abandoned entries being until and the server Ready.
AbandonedDamage(until, p, a, t) ==
  IsStructureDamageAllowed(
    wars_by_id, t,
    [Hit(p, a) EXCEPT !.until = IF p \in DOMAIN until THEN until[p] ELSE 0],
    [Arena({}) EXCEPT !.window = config.enable_abandoned_structure_window]
  ).allowed

\* The attackers of a structure of party p: any other party, or no tribe.
Attackers(p) == ({0} \cup Tribes) \ {p}

\* C33: with the feature enabled, a tribe that a timer callback sees with no
\* members can be attacked by anyone, also by an attacker without a tribe,
\* for abandoned_structure_window_seconds from that second and no longer
\* after; a tribe seen with members has no entry and cannot be attacked on
\* that ground; with the feature disabled no tribe is ever attackable as
\* abandoned.
AbandonedWindow ==
  /\ [](~config.enable_abandoned_structure_window =>
          \A p \in RosterTribes, t \in StartTime..MaxTime :
            \A a \in Attackers(p) :
              ~AbandonedDamage(abandoned_tribe_until, p, a, t))
  /\ [][\A tribes \in TribesSeen :
          (/\ TimerStep
           /\ config.enable_abandoned_structure_window
           /\ ObserveTribes(tribes))
          => \A p \in DOMAIN tribes, t \in now..(now + MaxWindow) :
               \A a \in Attackers(p) :
                 /\ tribes[p] = 0 =>
                      (AbandonedDamage(abandoned_tribe_until', p, a, t)
                         <=> t < now + Max(0,
                               config.abandoned_structure_window_seconds))
                 /\ tribes[p] > 0 =>
                      /\ p \notin DOMAIN abandoned_tribe_until'
                      /\ ~AbandonedDamage(abandoned_tribe_until', p, a, t)]_vars

\* Witness for C33: tribe 10 was seen without members, an attacker without
\* a tribe may damage its structures now and no longer when the window ends,
\* and tribe 20, seen with members again, has lost its entry.
AbandonedTribeAttackable ==
  /\ config.enable_abandoned_structure_window
  /\ last.op = "tick_again"
  /\ now > StartTime
  /\ 10 \in DOMAIN abandoned_tribe_until
  /\ 20 \notin DOMAIN abandoned_tribe_until
  /\ AbandonedDamage(abandoned_tribe_until, 10, 0, now)
  /\ ~AbandonedDamage(abandoned_tribe_until, 10, 0, abandoned_tribe_until[10])

\* The place of a phase in the order Pending, Active, Cooldown, None.
PhaseRank(phase) ==
  IF phase = "Pending" THEN 1
  ELSE IF phase = "Active" THEN 2
  ELSE IF phase = "Cooldown" THEN 3
  ELSE 4

\* C34: the phase of a record that stays in the store never moves back in
\* the order Pending, Active, Cooldown, None, whatever requestCancel,
\* acceptCancel, timer callback or passing second the step is.
PhaseNeverRegresses ==
  [][\A id \in DOMAIN wars_by_id \cap DOMAIN wars_by_id' :
       PhaseRank(GetPhase(wars_by_id'[id], now'))
         >= PhaseRank(GetPhase(wars_by_id[id], now))]_vars

\* C35: in every reachable state a record that has ended has both cancel
\* flags false, and HasIncomingCancel is false for both of its parties.
EndedRecordsHaveNoCancelFlags ==
  \A id \in DOMAIN wars_by_id :
    wars_by_id[id].ended_at # 0 =>
      /\ ~wars_by_id[id].cancel_requested_by_a
      /\ ~wars_by_id[id].cancel_requested_by_b
      /\ ~HasIncomingCancel(wars_by_id, tribe_to_war_id, wars_by_id[id].tribe_a)
      /\ ~HasIncomingCancel(wars_by_id, tribe_to_war_id, wars_by_id[id].tribe_b)

\* C36: a cancel flag that is set on a record that has not ended stays set
\* in every later state until the record has ended, and the record is not
\* removed meanwhile; when both flags are set on such a record (after a
\* RequestCancelWar of each side, in either order), AcceptCancelWar of
\* either side ends it in that step.
CancelRequestStands ==
  [][\A id \in DOMAIN wars_by_id :
       wars_by_id[id].ended_at = 0 =>
         /\ wars_by_id[id].cancel_requested_by_a
              => /\ id \in DOMAIN wars_by_id'
                 /\ \/ wars_by_id'[id].ended_at # 0
                    \/ wars_by_id'[id].cancel_requested_by_a
         /\ wars_by_id[id].cancel_requested_by_b
              => /\ id \in DOMAIN wars_by_id'
                 /\ \/ wars_by_id'[id].ended_at # 0
                    \/ wars_by_id'[id].cancel_requested_by_b
         /\ BothRequested(wars_by_id[id])
              => \A p \in Sides(wars_by_id[id]) :
                   AcceptCancelWar(p)
                   => /\ wars_by_id'[id].ended_at = now
                      /\ ~wars_by_id'[id].cancel_requested_by_a
                      /\ ~wars_by_id'[id].cancel_requested_by_b]_vars

\* C36 witness: both sides have called RequestCancelWar and the war has not
\* ended; both flags are set.
BothRequestsStand ==
  /\ last.op = "cancel"
  /\ \E id \in DOMAIN wars_by_id :
       /\ wars_by_id[id].ended_at = 0
       /\ BothRequested(wars_by_id[id])
       /\ <<id, wars_by_id[id].tribe_a>> \in cancel_callers
       /\ <<id, wars_by_id[id].tribe_b>> \in cancel_callers

\* IsWarAllowed without its last check, the one of IsTribeInCooldown.
WithoutCooldownCheck(reason) == IF reason = "cooldown" THEN "ok" ELSE reason

\* The request reaches the busy check of IsWarAllowed.
ReachesBusyCheck(a, b, allied) ==
  a # 0 /\ b # 0 /\ a # b /\ ~(server_ready /\ allied)

\* C37, as stated: no declare command is refused with the cooldown reason.
CooldownReasonNeverReturned ==
  \A c \in Callers : callers[c].reason # "cooldown"

\* C37, amended: with all its checks made at one time (the store and the
\* clock being what any command can find), IsWarAllowed refuses
\* a request that reaches the busy check and has a party in Cooldown as
\* busy, never gives the cooldown reason, and accepts the same requests
\* with or without its cooldown check; a declare command is refused with
\* the cooldown reason only when the clock has moved since the command read
\* it, the cooldown of a party having run out in between.
CooldownReasonOnlyAcrossSeconds ==
  /\ \A c \in Callers :
       callers[c].reason = "cooldown"
       => /\ callers[c].now < now
          /\ \E p \in {callers[c].tribe_id, callers[c].target_id} :
               /\ InCooldown(p, callers[c].now)
               /\ ~InCooldown(p, now)
  /\ NoCallRunning =>
     \A a, b \in PartyIds, allied \in AllianceAnswers,
        member_online \in RosterAnswers :
       LET reason == IsWarAllowed(wars_by_id, tribe_to_war_id, a, b, now,
                                  server_ready, allied, member_online)
       IN /\ reason # "cooldown"
          /\ (WithoutCooldownCheck(reason) = "ok") = (reason = "ok")
          /\ (/\ ReachesBusyCheck(a, b, allied)
              /\ InCooldown(a, now) \/ InCooldown(b, now))
             => reason = "busy"

\* C37 witness: a declare command that read the clock a second ago was
\* refused with the cooldown reason.
CooldownReasonAcrossSeconds ==
  \E c \in Callers :
    /\ callers[c].reason = "cooldown"
    /\ callers[c].now = now - 1

\* The records that share a party with record id and whose phase at t is
\* not None.
LiveBeside(id, t) ==
  {n \in DOMAIN wars_by_id :
     /\ GetPhase(wars_by_id[n], t) # "None"
     /\ Sides(wars_by_id[n]) \cap Sides(wars_by_id[id]) # {}}

\* C38: while a record whose two cooldown ends have passed is still in the
\* table, a former belligerent with no other war can declare on, and be
\* declared on by, any free party; the declare leaves the expired record in
\* the table beside the new one and the index maps both parties of the new
\* war to the new record. Whenever an expired record and a live record of
\* one of its parties are in the table together, the index leads the
\* parties of the live record to it and no party to the expired record, and
\* the next timer callback removes the expired record and keeps the live
\* record and its index entries.
ExpiredRecordYieldsToNewWar ==
  /\ [](\A e \in Expired(wars_by_id, now) :
          \A n \in LiveBeside(e, now) :
            /\ \A p \in Sides(wars_by_id[n]) :
                 p \in DOMAIN tribe_to_war_id /\ tribe_to_war_id[p] = n
            /\ \A p \in DOMAIN tribe_to_war_id : tribe_to_war_id[p] # e)
  /\ [][\A e \in Expired(wars_by_id, now) :
          /\ \A p \in Sides(wars_by_id[e]), q \in Tribes :
               (/\ server_ready
                /\ q # p
                /\ LiveAt(p, now) = {}
                /\ LiveAt(q, now) = {})
               => /\ IsWarAllowed(wars_by_id, tribe_to_war_id, p, q, now,
                                  server_ready, FALSE, TRUE) = "ok"
                  /\ IsWarAllowed(wars_by_id, tribe_to_war_id, q, p, now,
                                  server_ready, FALSE, TRUE) = "ok"
                  /\ (Declare(p, q, FALSE, TRUE) \/ Declare(q, p, FALSE, TRUE))
                     => /\ wars_by_id'[e] = wars_by_id[e]
                        /\ DOMAIN wars_by_id'
                             = DOMAIN wars_by_id \cup {next_war_id}
                        /\ Sides(wars_by_id'[next_war_id]) = {p, q}
                        /\ tribe_to_war_id'[p] = next_war_id
                        /\ tribe_to_war_id'[q] = next_war_id
          /\ (TimerStep /\ auto_timers_enabled /\ Tick)
             => /\ e \notin DOMAIN wars_by_id'
                /\ \A n \in LiveBeside(e, now) :
                     /\ wars_by_id'[n].war_id = n
                     /\ Sides(wars_by_id'[n]) = Sides(wars_by_id[n])
                     /\ \A p \in Sides(wars_by_id[n]) :
                          tribe_to_war_id'[p] = n]_vars

\* C38 witness: a timer callback has just removed the expired record of a
\* party and kept the war that party declared since.
ExpiredRemovedBesideNewWar ==
  /\ last.op = "tick"
  /\ \E k \in DOMAIN cooldown_emitted :
       /\ k[1] \notin DOMAIN wars_by_id
       /\ \E i \in DOMAIN last.notes :
            last.notes[i] = Note(k[2], "cooldown_ended", FALSE)
       /\ k[2] \in DOMAIN tribe_to_war_id
       /\ tribe_to_war_id[k[2]] \in DOMAIN wars_by_id
       /\ tribe_to_war_id[k[2]] > k[1]

\* C39: a timer callback that runs while the server is not ready appends
\* the notifications of its ProcessTimers at the end of the queue and hands
\* nothing to the transport; no other step changes the queue; a timer
\* callback that runs while the server is ready hands the whole queue,
\* oldest first and followed by its own notifications, to the transport and
\* leaves the queue empty.
NotificationsKeptUntilReady ==
  [][/\ (TimerStep /\ ~server_ready)
        => /\ pending_notifications' = pending_notifications \o last'.notes
           /\ last'.delivered = << >>
     /\ (TimerStep /\ server_ready)
        => /\ last'.delivered = pending_notifications \o last'.notes
           /\ pending_notifications' = << >>
     /\ ~TimerStep => pending_notifications' = pending_notifications]_vars

\* C39 witness: the first timer callback after the server became ready has
\* delivered the notifications that two earlier callbacks had queued, in
\* the order they were generated.
QueuedNotificationsDelivered ==
  /\ server_ready
  /\ last.op \in {"tick", "tick_again"}
  /\ pending_notifications = << >>
  /\ Len(last.delivered) >= Len(last.notes) + 4
  /\ last.delivered[1].message = "war_started"
  /\ last.delivered[3].message = "cooldown_ended"

\* The records of party p whose phase at now is not None and in which the
\* other side has asked to cancel.
IncomingRequestsOf(p) ==
  {id \in LiveAt(p, now) : IncomingFlag(wars_by_id[id], p)}

\* C40: the accept command changes no state unless the caller has a tribe,
\* is its leader or an admin, the tribe has a war whose phase is not None
\* and the other side's cancel flag is set; in that case it ends the war in
\* the same step (ended_at = now, both flags cleared). No accept command
\* leaves a cancel flag set that was not set before.
AcceptGatedOnIncomingRequest ==
  [][\A p \in PartyIds, is_leader \in BOOLEAN :
       CmdWarAcceptCancel(p, is_leader)
       => /\ (p = 0 \/ ~is_leader \/ IncomingRequestsOf(p) = {})
             => UNCHANGED <<wars_by_id, tribe_to_war_id, next_war_id,
                            need_save, pending_notifications>>
          /\ (p # 0 /\ is_leader)
             => \A id \in IncomingRequestsOf(p) :
                  /\ wars_by_id[id].ended_at = 0
                  /\ wars_by_id'[id].ended_at = now
                  /\ ~wars_by_id'[id].cancel_requested_by_a
                  /\ ~wars_by_id'[id].cancel_requested_by_b
          /\ \A id \in DOMAIN wars_by_id :
               /\ wars_by_id'[id].cancel_requested_by_a
                    => wars_by_id[id].cancel_requested_by_a
               /\ wars_by_id'[id].cancel_requested_by_b
                    => wars_by_id[id].cancel_requested_by_b]_vars

\* C2: two declare commands that run at the same time and involve a common
\* party do not both succeed.
ConcurrentDeclaresExclude ==
  \A c, d \in Callers :
    (/\ c # d
     /\ callers[c].pc = "done" /\ callers[c].reason = "ok"
     /\ callers[d].pc = "done" /\ callers[d].reason = "ok")
    => CallSides(c) \cap CallSides(d) = {}

\* C8: next_war_id exceeds every war_id in the store, and every id declare
\* assigns is greater than every id assigned before and is not the id of a
\* record in the store, across saves, unloads and loads.
WarIdsNeverReused ==
  /\ [](\A id \in DOMAIN wars_by_id : id < next_war_id)
  /\ [][(last'.reason = "ok" /\ next_war_id' = next_war_id + 1)
          => /\ next_war_id \notin DOMAIN wars_by_id
             /\ \A id \in assigned : id < next_war_id]_vars

====
